---- MODULE Spec2Model ----
(***************************************************************************)
(* Euchre rules engine: the reducer gameReducer (state, action) -> state,  *)
(* its helper functions from gameUtils, and the user interface and         *)
(* scheduler that dispatch actions to it.                                  *)
(***************************************************************************)
EXTENDS Integers, Sequences, FiniteSets, TLC

VARIABLES state, hist, last, call

vars == <<state, hist, last, call>>

(***************************************************************************)
(* Bounds of the model.                                                    *)
(***************************************************************************)
\* the shuffles Math.random may produce are ShuffleIndices(1..NumShuffles)
NumShuffles == 2
\* hands dealt in one game before the model stops dispatching
MaxHands == 1

(***************************************************************************)
(* Cards (types/game.ts, gameUtils.ts).                                    *)
(***************************************************************************)
Seats == 0..3

SUITS_ORDER == <<"clubs", "diamonds", "hearts", "spades">>

STD_RANKS_ORDER == <<"9", "10", "J", "Q", "K", "A">>

Suits == {"hearts", "diamonds", "spades", "clubs"}

Ranks == {"9", "10", "J", "Q", "K", "A"}

NoTrump == "undefined"

NoCard == [suit |-> "undefined", rank |-> "undefined"]

\* the missing value (undefined, null) where an array is expected; an array is
\* indexed from 0 or 1, this value is not
Undefined == [i \in {-1} |-> [undefined |-> TRUE]]

Card(r, s) == [suit |-> s, rank |-> r]

AllCards == {Card(r, s) : r \in Ranks, s \in Suits}

\* STD_RANKS_ORDER.indexOf(rank), 0-based
RankIndex(rank) == (CHOOSE i \in 1..Len(STD_RANKS_ORDER) : STD_RANKS_ORDER[i] = rank) - 1

\* elements of a sequence, as a set
Range(s) == {s[i] : i \in 1..Len(s)}

\* Array.prototype.sort((a, b) => key(a) - key(b)): stable, ascending in the
\* keys k, where k[i] is the key of s[i]
StableSort(s, k) ==
  LET n == Len(s)
      pos(i) == Cardinality({j \in 1..n : k[j] < k[i] \/ (k[j] = k[i] /\ j < i)}) + 1
  IN  [p \in 1..n |-> s[CHOOSE i \in 1..n : pos(i) = p]]

\* Array.prototype.find: the first of the elements f that pass the test, or
\* NoCard
Find(f) == IF Len(f) = 0 THEN NoCard ELSE f[1]

getLeftBowerSuit(trump) ==
  CASE trump = "hearts" -> "diamonds"
    [] trump = "diamonds" -> "hearts"
    [] trump = "spades" -> "clubs"
    [] trump = "clubs" -> "spades"

getEffectiveSuit(card, trump) ==
  IF card.rank = "J" /\ card.suit = getLeftBowerSuit(trump)
    THEN trump
    ELSE card.suit

\* getRankValue without the 11 that lifts the plain trump cards above the
\* other suits
getRankValue_TrumpNotLifted(card, trump) ==
  IF getEffectiveSuit(card, trump) = trump
    THEN IF card.rank = "J" /\ card.suit = trump THEN 18
         ELSE IF card.rank = "J" /\ card.suit = getLeftBowerSuit(trump) THEN 17
         ELSE RankIndex(card.rank) + 5
    ELSE RankIndex(card.rank) + 5

\* getRankValue with the left bower valued as a plain trump jack
getRankValue_LeftBowerPlain(card, trump) ==
  IF getEffectiveSuit(card, trump) = trump
    THEN IF card.rank = "J" /\ card.suit = trump THEN 18
         ELSE RankIndex(card.rank) + 11
    ELSE RankIndex(card.rank) + 5

getRankValue(card, trump) ==
  IF getEffectiveSuit(card, trump) = trump
    THEN IF card.rank = "J" /\ card.suit = trump THEN 18
         ELSE IF card.rank = "J" /\ card.suit = getLeftBowerSuit(trump) THEN 17
         ELSE RankIndex(card.rank) + 11
    ELSE RankIndex(card.rank) + 5

isTrumpCard(card, trump) == getEffectiveSuit(card, trump) = trump

\* hasLeadSuitInHand of isValidPlay
HasSuit(hand, effectiveLeadSuit, trump) ==
  \E i \in 1..Len(hand) : getEffectiveSuit(hand[i], trump) = effectiveLeadSuit

\* isValidPlay comparing the suit printed on the card with the lead suit
FollowsLead_PrintedSuit(cardToPlay, hand, effectiveLeadSuit, trump) ==
  IF HasSuit(hand, effectiveLeadSuit, trump)
    THEN cardToPlay.suit = effectiveLeadSuit
    ELSE TRUE

\* isValidPlay once the trick is known not to be empty
FollowsLead(cardToPlay, hand, effectiveLeadSuit, trump) ==
  IF HasSuit(hand, effectiveLeadSuit, trump)
    THEN getEffectiveSuit(cardToPlay, trump) = effectiveLeadSuit
    ELSE TRUE

isValidPlay(cardToPlay, hand, trick, trump) ==
  IF ~(\E i \in 1..Len(hand) : hand[i] = cardToPlay) THEN FALSE
  ELSE IF Len(trick) = 0 THEN TRUE
  ELSE FollowsLead(cardToPlay, hand, getEffectiveSuit(trick[1], trump), trump)

\* a loop of determineWinner in which a higher card of any suit takes the
\* trick from a card that is not trump
Takes_AnySuit(currentSuit, winningSuit, currentRankValue, winningRankValue, leadSuitOfTrick, trump) ==
  IF currentSuit = trump
    THEN IF winningSuit = trump
           THEN currentRankValue > winningRankValue
           ELSE TRUE
    ELSE IF winningSuit # trump
           THEN currentRankValue > winningRankValue
           ELSE FALSE

\* one iteration of the loop of determineWinner: currentCard takes the trick
\* from winningCard
Takes(currentSuit, winningSuit, currentRankValue, winningRankValue, leadSuitOfTrick, trump) ==
  IF currentSuit = trump
    THEN IF winningSuit = trump
           THEN currentRankValue > winningRankValue
           ELSE TRUE
    ELSE IF winningSuit # trump
           THEN currentSuit = leadSuitOfTrick
                /\ currentRankValue > winningRankValue
           ELSE FALSE

\* the loop of determineWinner from index i (0-based) with winner index w so far
RECURSIVE DetermineWinnerLoop(_, _, _, _)
DetermineWinnerLoop(trick, trump, i, w) ==
  IF i >= Len(trick) THEN w
  ELSE DetermineWinnerLoop(trick, trump, i + 1,
         IF Takes(getEffectiveSuit(trick[i + 1], trump),
                  getEffectiveSuit(trick[w + 1], trump),
                  getRankValue(trick[i + 1], trump),
                  getRankValue(trick[w + 1], trump),
                  getEffectiveSuit(trick[1], trump), trump)
           THEN i ELSE w)

\* index (0-based) of the winning card of a non-empty trick
determineWinner(trick, trump) == DetermineWinnerLoop(trick, trump, 1, 0)

\* the keys of the cards of s under Array.prototype.sort by ascending rank value
AscKeys(s, trump) == [i \in 1..Len(s) |-> getRankValue(s[i], trump)]

\* the keys of the cards of s under Array.prototype.sort by descending rank value
DescKeys(s, trump) == [i \in 1..Len(s) |-> 0 - getRankValue(s[i], trump)]

\* the first card of s sorted by ascending rank value
Lowest(s, trump) == StableSort(s, AscKeys(s, trump))[1]

\* the first card of s sorted by descending rank value
Highest(s, trump) == StableSort(s, DescKeys(s, trump))[1]

\* hand.filter(h => h.suit === c.suit).length
SuitCount(hand, c) == Cardinality({i \in 1..Len(hand) : hand[i].suit = c.suit})

\* offSuitAces.sort by the number of cards the hand holds of the ace's suit
SortAces(aces, hand) ==
  StableSort(aces, [i \in 1..Len(aces) |-> SuitCount(hand, aces[i])])

\* the order of preference of getBestPlay when leading
LeadChoice(rightBower, leftBower, trumps, offSuitAces, highs, validPlays, trump) ==
  IF rightBower # NoCard THEN rightBower
  ELSE IF leftBower # NoCard THEN leftBower
  ELSE IF Len(trumps) > 0 THEN Highest(trumps, trump)
  ELSE IF Len(offSuitAces) > 0 THEN offSuitAces[1]
  ELSE IF Len(highs) > 0 THEN Highest(highs, trump)
  ELSE Highest(validPlays, trump)

\* getBestPlay, trick empty: leading a new trick
BestLead(hand, validPlays, trump) ==
  LET IsRight(c) == c.rank = "J" /\ c.suit = trump
      IsLeft(c) == c.rank = "J" /\ c.suit = getLeftBowerSuit(trump)
      IsTrumpC(c) == isTrumpCard(c, trump)
      IsOffAce(c) == c.rank = "A" /\ ~isTrumpCard(c, trump)
      IsHighOff(c) == ~isTrumpCard(c, trump) /\ (c.rank = "K" \/ c.rank = "Q")
  IN  LeadChoice(Find(SelectSeq(validPlays, IsRight)), Find(SelectSeq(validPlays, IsLeft)),
                 SelectSeq(validPlays, IsTrumpC),
                 SortAces(SelectSeq(validPlays, IsOffAce), hand),
                 SelectSeq(validPlays, IsHighOff), validPlays, trump)

\* a follower that plays its lowest card of the lead suit whether or not a
\* higher one would win
FollowChoice_NeverWins(discard, following, winningFollowing, trumps, winningTrumps, nonTrumps, validPlays, trump) ==
  IF discard THEN Lowest(validPlays, trump)
  ELSE IF Len(following) > 0 THEN Lowest(following, trump)
  ELSE IF Len(trumps) > 0
    THEN IF Len(winningTrumps) > 0 THEN Lowest(winningTrumps, trump)
         ELSE IF Len(nonTrumps) > 0 THEN Lowest(nonTrumps, trump)
         ELSE Lowest(trumps, trump)
  ELSE Lowest(validPlays, trump)

\* the choice of getBestPlay when following, from the filtered lists
FollowChoice(discard, following, winningFollowing, trumps, winningTrumps, nonTrumps, validPlays, trump) ==
  IF discard THEN Lowest(validPlays, trump)
  ELSE IF Len(following) > 0
    THEN IF Len(winningFollowing) > 0
           THEN Lowest(winningFollowing, trump)
           ELSE Lowest(following, trump)
  ELSE IF Len(trumps) > 0
    THEN IF Len(winningTrumps) > 0 THEN Lowest(winningTrumps, trump)
         ELSE IF Len(nonTrumps) > 0 THEN Lowest(nonTrumps, trump)
         ELSE Lowest(trumps, trump)
  ELSE Lowest(validPlays, trump)

\* the lists getBestPlay filters when following
FollowLists(discard, validPlays, effectiveLeadSuit, currentWinningValue, trump) ==
  LET Follows(c) == getEffectiveSuit(c, trump) = effectiveLeadSuit
      Beats(c) == getRankValue(c, trump) > currentWinningValue
      FollowsBeats(c) == Follows(c) /\ Beats(c)
      IsTrumpC(c) == isTrumpCard(c, trump)
      TrumpBeats(c) == IsTrumpC(c) /\ Beats(c)
      NotTrumpC(c) == ~isTrumpCard(c, trump)
  IN  FollowChoice(discard, SelectSeq(validPlays, Follows), SelectSeq(validPlays, FollowsBeats),
                   SelectSeq(validPlays, IsTrumpC), SelectSeq(validPlays, TrumpBeats),
                   SelectSeq(validPlays, NotTrumpC), validPlays, trump)

\* getBestPlay, trick not empty: following in a trick
BestFollow(validPlays, trick, trump, playerCardsRemaining, partnerIsWinning) ==
  FollowLists(partnerIsWinning
                /\ (Len(trick) = 3 \/ (Len(trick) = 2 /\ Len(playerCardsRemaining) = 1)),
              validPlays, getEffectiveSuit(trick[1], trump),
              getRankValue(trick[determineWinner(trick, trump) + 1], trump), trump)

\* a getBestPlay that plays the first card of the hand
BestOf_FirstOfHand(validPlays, hand, trick, trump, playerCardsRemaining, partnerIsWinning) ==
  IF Len(hand) = 0 THEN NoCard ELSE hand[1]

\* getBestPlay once validPlays is filtered
BestOf(validPlays, hand, trick, trump, playerCardsRemaining, partnerIsWinning) ==
  IF Len(validPlays) = 0
    THEN (IF Len(hand) = 0 THEN NoCard ELSE hand[1])
  ELSE IF Len(validPlays) = 1 THEN validPlays[1]
  ELSE IF Len(trick) = 0 THEN BestLead(hand, validPlays, trump)
  ELSE BestFollow(validPlays, trick, trump, playerCardsRemaining, partnerIsWinning)

\* hand.filter(card => isValidPlay(card, hand, trick, trump))
ValidPlays(hand, trick, trump) ==
  LET Valid(c) == isValidPlay(c, hand, trick, trump)
  IN  SelectSeq(hand, Valid)

getBestPlay(hand, trick, trump, playerCardsRemaining, partnerIsWinning) ==
  BestOf(ValidPlays(hand, trick, trump), hand, trick, trump,
         playerCardsRemaining, partnerIsWinning)

(***************************************************************************)
(* Deck engine (gameUtils.ts).                                             *)
(***************************************************************************)
\* createDeck before its shuffle: every suit x rank once, in SUITS_ORDER order
OrderedDeck ==
  [i \in 1..24 |-> Card(STD_RANKS_ORDER[((i - 1) % 6) + 1], SUITS_ORDER[((i - 1) \div 6) + 1])]

\* a dealing loop that reads the cards from the front of the deck and leaves
\* them there
DealRounds_FromFront(shuffledDeck) ==
  [ok |-> TRUE,
   hands |-> [playerIndex \in Seats |->
                [cardIndex \in 1..5 |->
                   shuffledDeck[(cardIndex - 1) * 4 + playerIndex + 1]]],
   remainingDeck |-> SubSeq(shuffledDeck, 1, Len(shuffledDeck) - 20)]

\* the dealing loop of dealCards: 5 rounds, one card popped from the end of
\* the deck for each of the 4 players in turn
DealRounds(shuffledDeck) ==
  [ok |-> TRUE,
   hands |-> [playerIndex \in Seats |->
                [cardIndex \in 1..5 |->
                   shuffledDeck[Len(shuffledDeck) - ((cardIndex - 1) * 4 + playerIndex)]]],
   remainingDeck |-> SubSeq(shuffledDeck, 1, Len(shuffledDeck) - 20)]

\* the permutations a call of shuffleDeck may produce, as indices into the
\* deck it is given; n stands for the values Math.random yields
ShuffleIndices(n) ==
  CASE n = 1 -> <<14, 19, 16, 23, 18, 8, 5, 17, 11, 4, 1, 20,
                  2, 12, 7, 6, 13, 15, 9, 3, 24, 10, 21, 22>>
    [] n = 2 -> <<13, 22, 8, 2, 20, 7, 1, 23, 5, 3, 12, 10,
                  4, 24, 18, 16, 14, 11, 21, 17, 9, 6, 15, 19>>
    [] n = 3 -> <<1, 2, 3, 4, 5, 6, 7, 8, 9, 10, 11, 12,
                  13, 14, 15, 16, 17, 18, 19, 20, 21, 22, 23, 24>>
    [] n = 0 -> <<15, 5, 9, 12, 8, 21, 7, 6, 4, 11, 17, 10,
                  19, 20, 22, 23, 2, 3, 14, 18, 16, 1, 13, 24>>
    [] OTHER -> [j \in 1..24 |-> ((5 * (j - 1) + n) % 24) + 1]

\* shuffleDeck: the n-th permutation of the deck
shuffleDeck(deck, n) == [j \in 1..Len(deck) |-> deck[ShuffleIndices(n)[j]]]

\* createDeck: the ordered deck, shuffled
createDeck(n) == shuffleDeck(OrderedDeck, n)

\* dealCards had it returned the deck it was given as remainingDeck instead
\* of what is left after the 20 pops
dealCards_KeepsDeck(deck, n) ==
  [DealRounds(shuffleDeck(deck, n)) EXCEPT !.remainingDeck = deck]

\* dealCards: null (ok FALSE) for no deck or one of fewer than 20 cards; otherwise the
\* deck is shuffled once more and dealt
dealCards(deck, n) ==
  IF deck = Undefined THEN [ok |-> FALSE, hands |-> <<>>, remainingDeck |-> <<>>]
  ELSE IF Len(deck) < 20 THEN [ok |-> FALSE, hands |-> <<>>, remainingDeck |-> <<>>]
  ELSE DealRounds(shuffleDeck(deck, n))

(***************************************************************************)
(* Game state (reducers/gameReducer.ts).                                   *)
(***************************************************************************)
\* initialState.players: seat 0 is the human player, seats 1..3 are CPU
initialPlayers ==
  [i \in Seats |-> [hand |-> <<>>, isCPU |-> (i # 0), sittingOut |-> FALSE]]

initialState ==
  [deck |-> <<>>,
   players |-> initialPlayers,
   currentPlayer |-> 0,
   dealer |-> 0,
   trickCards |-> <<>>,
   scores |-> <<0, 0>>,
   phase |-> "pre-game",
   learningMode |-> FALSE,
   passCount |-> 0,
   trumpSelector |-> 0,
   goingAlone |-> FALSE,
   trump |-> NoTrump,
   shouldClearTrick |-> FALSE]

\* history of the current dispatch and of the current hand; it is written by
\* the handlers and never read by them
\*   trickSeats  the seat that played each card of state.trickCards
\*   plays       one entry per successful handlePlayCard of the last dispatch
\*   resolutions one entry per trick resolved in the last dispatch
\*   mid         newState after the handler of the dispatched action, before
\*               the reducer applies a follow-up action to itself
\*   calls       gameReducer invocations of the last dispatch
\*   hands       successful deals since START_GAME
\*   cleared     cards removed from the trick by CLEAR_TRICK since the deal
\*   steps       one entry per handleDeal, handlePass, handleSetTrump and
\*               handleClearTrick of the last dispatch: the action, the state
\*               before and after the handler, and the toasts it raised
initialHist ==
  [trickSeats |-> <<>>,
   plays |-> <<>>,
   resolutions |-> <<>>,
   mid |-> initialState,
   calls |-> 0,
   hands |-> 0,
   cleared |-> 0,
   steps |-> <<>>]

NextRnd(n) == (n % NumShuffles) + 1

SetHand(players, i, hand) == [players EXCEPT ![i].hand = hand]

(***************************************************************************)
(* Handlers of the reducer.  A configuration c is [st, h, rnd]: the game   *)
(* state, the history and the next value of Math.random.                   *)
(***************************************************************************)
\* the history notes the state before and after a handler and its toasts
NotedStep(c, n, action, toasts) ==
  [n EXCEPT !.h.steps = Append(c.h.steps, [action |-> action, pre |-> c.st,
                                           post |-> n.st, toasts |-> toasts])]

\* a START_GAME that returns the whole initial state, learning mode included
handleStartGame_ResetsLearningMode(c, dealer) ==
  [c EXCEPT !.st = [initialState EXCEPT !.phase = "dealing", !.dealer = dealer],
            !.h.trickSeats = <<>>,
            !.h.hands = 0,
            !.h.cleared = 0]

handleStartGame(c, dealer) ==
  [c EXCEPT !.st = [initialState EXCEPT !.phase = "dealing",
                                        !.dealer = dealer,
                                        !.learningMode = c.st.learningMode],
            !.h.trickSeats = <<>>,
            !.h.hands = 0,
            !.h.cleared = 0]

\* a TOGGLE_LEARNING_MODE that switches learning mode on
handleToggleLearningMode_SetsOn(c) ==
  [c EXCEPT !.st.learningMode = TRUE]

handleToggleLearningMode(c) ==
  [c EXCEPT !.st.learningMode = ~c.st.learningMode]

\* the state handleDeal returns for a good deal
HandDealt(c, dealResult) ==
  [c EXCEPT
          !.st.deck = dealResult.remainingDeck,
          !.st.players = [i \in Seats |->
                            [c.st.players[i] EXCEPT !.hand = dealResult.hands[i],
                                                    !.sittingOut = FALSE]],
          !.st.currentPlayer = (c.st.dealer + 1) % 4,
          !.st.phase = "bidding",
          !.st.passCount = 0,
          !.st.trickCards = <<>>,
          !.st.trump = NoTrump,
          !.st.goingAlone = FALSE,
          !.st.shouldClearTrick = FALSE,
          !.h.trickSeats = <<>>,
          !.h.hands = c.h.hands + 1,
          !.h.cleared = 0,
          !.rnd = NextRnd(c.rnd)]

\* a deal that leaves the trump of the hand before
DealtState_KeepsTrump(c, dealResult) ==
  [HandDealt(c, dealResult) EXCEPT !.st.trump = c.st.trump]

\* a deal that leaves the sitting-out flags of the hand before, as the DEAL of
\* the earlier reducers/gameReducer.ts does
DealtState_KeepsSittingOut(c, dealResult) ==
  [HandDealt(c, dealResult) EXCEPT
     !.st.players = [i \in Seats |->
                       [c.st.players[i] EXCEPT !.hand = dealResult.hands[i]]]]

\* handleDeal once dealCards has returned dealResult
DealtState(c, dealResult) ==
  IF ~dealResult.ok
    THEN [c EXCEPT !.st = [initialState EXCEPT !.phase = "pre-game"],
                   !.rnd = NextRnd(c.rnd)]
  ELSE IF \E i \in Seats : Len(dealResult.hands[i]) # 5
    THEN [c EXCEPT !.st = [initialState EXCEPT !.phase = "pre-game"],
                   !.rnd = NextRnd(c.rnd)]
  ELSE HandDealt(c, dealResult)

\* the toasts of handleDeal
DealToasts(dealResult) ==
  IF ~dealResult.ok THEN <<"Failed to deal cards. Resetting game.">>
  ELSE IF \E i \in Seats : Len(dealResult.hands[i]) # 5
    THEN <<"Invalid deal detected. Resetting game.">>
  ELSE <<>>

Dealt(c, dealResult) ==
  NotedStep(c, DealtState(c, dealResult), [type |-> "DEAL"], DealToasts(dealResult))

handleDeal(c) == Dealt(c, dealCards(createDeck(c.rnd), c.rnd))

\* "if (newPassCount === 4) toast.info(...)" of handlePass
PassToasts(newPassCount) ==
  IF newPassCount = 4
    THEN <<"Dealer must select trump or pass for a misdeal (house rule dependent).">>
    ELSE <<>>

\* the state handlePass returns
Passed(c) ==
  [c EXCEPT !.st.currentPlayer = (c.st.currentPlayer + 1) % 4,
            !.st.passCount = c.st.passCount + 1]

handlePass(c) ==
  NotedStep(c, Passed(c), [type |-> "PASS"], PassToasts(c.st.passCount + 1))

\* the toast of handleSetTrump
SetTrumpToasts(goingAlone) ==
  IF goingAlone THEN <<"is going alone!">> ELSE <<>>

\* handleSetTrump that leaves the pass count as it was
TrumpSet_KeepsPassCount(c, action) ==
  [c EXCEPT
     !.st.trump = action.suit,
     !.st.trumpSelector = c.st.currentPlayer,
     !.st.phase = "playing",
     !.st.currentPlayer = (c.st.dealer + 1) % 4,
     !.st.goingAlone = action.goingAlone,
     !.st.players = [i \in Seats |->
                       [c.st.players[i] EXCEPT
                          !.sittingOut = action.goingAlone
                                         /\ i = (c.st.currentPlayer + 2) % 4]]]

\* the state handleSetTrump returns
TrumpSet(c, action) ==
  [c EXCEPT
     !.st.trump = action.suit,
     !.st.trumpSelector = c.st.currentPlayer,
     !.st.phase = "playing",
     !.st.currentPlayer = (c.st.dealer + 1) % 4,
     !.st.goingAlone = action.goingAlone,
     !.st.passCount = 0,
     !.st.players = [i \in Seats |->
                       [c.st.players[i] EXCEPT
                          !.sittingOut = action.goingAlone
                                         /\ i = (c.st.currentPlayer + 2) % 4]]]

handleSetTrump(c, action) ==
  NotedStep(c, TrumpSet(c, action), action, SetTrumpToasts(action.goingAlone))

\* the advance without the loop over sitting-out seats
SkipSittingOut_NoSkip(players, nextPlayer, fuel) == nextPlayer

\* the loop "while (newState.players[nextPlayer].sittingOut) nextPlayer++";
\* fuel bounds the iterations (a state in which all four seats sit out does
\* not exist: handleSetTrump marks at most one)
RECURSIVE SkipSittingOut(_, _, _)
SkipSittingOut(players, nextPlayer, fuel) ==
  IF fuel > 0 /\ players[nextPlayer].sittingOut
    THEN SkipSittingOut(players, (nextPlayer + 1) % 4, fuel - 1)
    ELSE nextPlayer

\* a hand from which the first card is dropped, whichever card is played
RemoveCard_First(hand, card) == Tail(hand)

\* a hand that keeps the played card
RemoveCard_Keeps(hand, card) == hand

\* currentPlayer.hand.filter(c => c.id !== action.card.id)
RemoveCard(hand, card) ==
  LET Other(x) == x # card
  IN  SelectSeq(hand, Other)

\* handlePlayCard, trick complete: the winner is credited and leads next
TrickComplete(c, players, newTrickCards, newTrickSeats, trickWinnerPlayerIndex, newScores) ==
  [c EXCEPT
     !.st.players = players,
     !.st.trickCards = newTrickCards,
     !.st.scores = newScores,
     !.st.currentPlayer = trickWinnerPlayerIndex,
     !.st.shouldClearTrick = TRUE,
     !.h.trickSeats = newTrickSeats,
     !.h.resolutions = Append(c.h.resolutions,
        [cards |-> newTrickCards, seats |-> newTrickSeats,
         trump |-> c.st.trump, winner |-> trickWinnerPlayerIndex,
         before |-> c.st.scores, after |-> newScores])]

\* newScores[trickWinnerPlayerIndex % 2]++
Credit(scores, trickWinnerPlayerIndex) ==
  [scores EXCEPT ![(trickWinnerPlayerIndex % 2) + 1] = @ + 1]

\* leadPlayerIndex and trickWinnerPlayerIndex of handlePlayCard
TrickWinner(currentPlayer, trickLength, winningCardIndexInTrick) ==
  (((currentPlayer - (trickLength - 1) + 4) % 4) + winningCardIndexInTrick) % 4

\* handlePlayCard, trick not complete: the turn moves to nextPlayer
TrickContinues(c, players, newTrickCards, newTrickSeats, nextPlayer) ==
  [c EXCEPT
     !.st.players = players,
     !.st.trickCards = newTrickCards,
     !.st.shouldClearTrick = FALSE,
     !.st.currentPlayer = nextPlayer,
     !.h.trickSeats = newTrickSeats]

\* a trick size that ignores goingAlone
ExpectedTrickSize_AlwaysFour(st) == 4

\* expectedTrickSize of handlePlayCard
ExpectedTrickSize(st) == IF st.goingAlone THEN 3 ELSE 4

\* handlePlayCard after the hand and the trick are updated
Played(c, players, newTrickCards, newTrickSeats, trickWinnerPlayerIndex) ==
  IF Len(newTrickCards) = ExpectedTrickSize(c.st)
    THEN TrickComplete(c, players, newTrickCards, newTrickSeats, trickWinnerPlayerIndex,
                       Credit(c.st.scores, trickWinnerPlayerIndex))
    ELSE TrickContinues(c, players, newTrickCards, newTrickSeats,
                        SkipSittingOut(players, (c.st.currentPlayer + 1) % 4, 4))

\* the body of handlePlayCard after its four rejections
PlayAccepted(c, card) ==
  Played(c,
         SetHand(c.st.players, c.st.currentPlayer,
                 RemoveCard(c.st.players[c.st.currentPlayer].hand, card)),
         Append(c.st.trickCards, card),
         Append(c.h.trickSeats, c.st.currentPlayer),
         TrickWinner(c.st.currentPlayer, Len(c.st.trickCards) + 1,
                     determineWinner(Append(c.st.trickCards, card), c.st.trump)))

\* the history notes the state before and after an accepted PLAY_CARD
NotedPlay(c, n, card) ==
  [n EXCEPT !.h.plays = Append(c.h.plays, [card |-> card, pre |-> c.st, post |-> n.st,
                                           seats |-> c.h.trickSeats])]

\* handlePlayCard without the isValidPlay rejection, as in the earlier
\* reducers/gameReducer.ts
handlePlayCard_NoValidityCheck(c, action) ==
  IF c.st.trump = NoTrump THEN c
  ELSE IF c.st.players[c.st.currentPlayer].sittingOut THEN c
  ELSE NotedPlay(c, PlayAccepted(c, action.card), action.card)

handlePlayCard(c, action) ==
  IF c.st.trump = NoTrump THEN c
  ELSE IF c.st.players[c.st.currentPlayer].sittingOut THEN c
  ELSE IF ~(\E i \in 1..Len(c.st.players[c.st.currentPlayer].hand) :
              c.st.players[c.st.currentPlayer].hand[i] = action.card) THEN c
  ELSE IF ~isValidPlay(action.card, c.st.players[c.st.currentPlayer].hand,
                       c.st.trickCards, c.st.trump) THEN c
  ELSE NotedPlay(c, PlayAccepted(c, action.card), action.card)

\* a hand that is over only when all four hands are empty
AllHandsEmpty_CountsSittingOut(st) ==
  \A i \in Seats : Len(st.players[i].hand) = 0

\* allHandsEmpty of handleClearTrick
AllHandsEmpty(st) ==
  \A i \in Seats : st.players[i].sittingOut \/ Len(st.players[i].hand) = 0

\* the toast of handleClearTrick
ClearToasts(st) ==
  IF AllHandsEmpty(st) THEN <<"Hand complete! Dealing new cards...">> ELSE <<>>

\* the state handleClearTrick returns
Cleared(c) ==
  IF AllHandsEmpty(c.st)
    THEN [c EXCEPT
            !.st.phase = "dealing",
            !.st.trickCards = <<>>,
            !.st.shouldClearTrick = FALSE,
            !.st.dealer = (c.st.dealer + 1) % 4,
            !.st.currentPlayer = (c.st.dealer + 1 + 1) % 4,
            !.h.trickSeats = <<>>,
            !.h.cleared = c.h.cleared + Len(c.st.trickCards)]
    ELSE [c EXCEPT
            !.st.trickCards = <<>>,
            !.st.shouldClearTrick = FALSE,
            !.h.trickSeats = <<>>,
            !.h.cleared = c.h.cleared + Len(c.st.trickCards)]

handleClearTrick(c) ==
  NotedStep(c, Cleared(c), [type |-> "CLEAR_TRICK"], ClearToasts(c.st))

(***************************************************************************)
(* CPU decisions (handleCpuPlay) and the main reducer.                     *)
(***************************************************************************)
\* const suits in handleCpuPlay: the order in which the bidder scores the suits
BidSuits == <<"hearts", "diamonds", "spades", "clubs">>

callTrumpThreshold == 10

goAloneThreshold == 18

\* currentScore of one candidate suit in the bidding loop of handleCpuPlay
BidScore(hand, suit) ==
  LET OfSuit(x) == getEffectiveSuit(x, suit) = suit
      HighOfSuit(x) == OfSuit(x) /\ x.rank \in {"A", "K", "Q", "J"}
      Right(x) == x.rank = "J" /\ x.suit = suit
      Left(x) == x.rank = "J" /\ x.suit = getLeftBowerSuit(suit)
      OffAce(x) == x.rank = "A" /\ x.suit # suit
  IN  Len(SelectSeq(hand, OfSuit)) * 2 + Len(SelectSeq(hand, HighOfSuit)) * 3
      + (IF Len(SelectSeq(hand, Right)) > 0 THEN 4 ELSE 0)
      + (IF Len(SelectSeq(hand, Left)) > 0 THEN 3 ELSE 0)
      + Len(SelectSeq(hand, OffAce))

\* a bidding loop in which a later suit of equal score replaces the earlier one
BetterBid_LastWins(best, suit, currentScore) ==
  IF currentScore >= best.maxScore
    THEN [bestSuit |-> suit, maxScore |-> currentScore]
    ELSE best

\* "if (currentScore > maxScore)" of the bidding loop
BetterBid(best, suit, currentScore) ==
  IF currentScore > best.maxScore
    THEN [bestSuit |-> suit, maxScore |-> currentScore]
    ELSE best

\* the bidding loop from the k-th suit with [bestSuit, maxScore] so far
RECURSIVE BidLoop(_, _, _)
BidLoop(hand, k, best) ==
  IF k > Len(BidSuits) THEN best
  ELSE BidLoop(hand, k + 1, BetterBid(best, BidSuits[k], BidScore(hand, BidSuits[k])))

BestBid(hand) == BidLoop(hand, 1, [bestSuit |-> NoTrump, maxScore |-> 0 - 1])

\* "if (count > mostCards)" of the fallback loop
MoreCards(best, suit, count) ==
  IF count > best.mostCards
    THEN [bestSuit |-> suit, mostCards |-> count]
    ELSE best

\* hand.filter(c => c.suit === s).length
RawSuitCount(hand, s) == Cardinality({i \in 1..Len(hand) : hand[i].suit = s})

\* the fallback of a forced dealer without bestSuit: the suit with most cards
RECURSIVE MostCardsLoop(_, _, _)
MostCardsLoop(hand, k, best) ==
  IF k > Len(BidSuits) THEN best
  ELSE MostCardsLoop(hand, k + 1,
                     MoreCards(best, BidSuits[k], RawSuitCount(hand, BidSuits[k])))

\* "if (!bestSuit) bestSuit = suits[0]"
OrFirstSuit(suit) == IF suit # NoTrump THEN suit ELSE BidSuits[1]

ForcedSuit(hand, bestSuit) ==
  IF bestSuit # NoTrump THEN bestSuit
  ELSE OrFirstSuit(MostCardsLoop(hand, 1, [bestSuit |-> NoTrump, mostCards |-> 0]).bestSuit)

\* a bidder that is never forced: it passes whenever the threshold is missed
BidDecision_NeverForced(st, hand, b) ==
  IF b.bestSuit # NoTrump /\ b.maxScore >= callTrumpThreshold
    THEN [type |-> "SET_TRUMP", suit |-> b.bestSuit,
          goingAlone |-> (b.maxScore >= goAloneThreshold)]
  ELSE [type |-> "PASS"]

\* the decision of the bidding branch once the loop has found b
BidDecision(st, hand, b) ==
  IF b.bestSuit # NoTrump /\ b.maxScore >= callTrumpThreshold
    THEN [type |-> "SET_TRUMP", suit |-> b.bestSuit,
          goingAlone |-> (b.maxScore >= goAloneThreshold)]
  ELSE IF st.currentPlayer = st.dealer /\ st.passCount >= 3
    THEN [type |-> "SET_TRUMP", suit |-> ForcedSuit(hand, b.bestSuit),
          goingAlone |-> FALSE]
  ELSE [type |-> "PASS"]

\* the action the bidding branch of handleCpuPlay dispatches
CpuBid(st) ==
  BidDecision(st, st.players[st.currentPlayer].hand,
              BestBid(st.players[st.currentPlayer].hand))

\* "if (cardToPlay) ... else playableCards[0]"
OrFirstPlayable(cardToPlay, playableCards) ==
  IF cardToPlay # NoCard THEN cardToPlay
  ELSE IF Len(playableCards) > 0 THEN playableCards[1]
  ELSE NoCard

\* the card the playing branch of handleCpuPlay dispatches, or NoCard
CpuCard(st) ==
  OrFirstPlayable(
    getBestPlay(st.players[st.currentPlayer].hand, st.trickCards, st.trump,
                [i \in 1..4 |-> Len(st.players[i - 1].hand)], FALSE),
    ValidPlays(st.players[st.currentPlayer].hand, st.trickCards, st.trump))

IsCpuTurn(st) ==
  st.players[st.currentPlayer].isCPU /\ ~st.players[st.currentPlayer].sittingOut

RECURSIVE gameReducer(_, _)

\* the playing branch of handleCpuPlay once the card is chosen
CpuPlays(c, card) ==
  IF card # NoCard THEN gameReducer(c, [type |-> "PLAY_CARD", card |-> card]) ELSE c

\* a handleCpuPlay that does not test whether the seat to act is automated
handleCpuPlay_AnySeat(c) ==
  IF c.st.players[c.st.currentPlayer].sittingOut
     \/ c.st.phase = "pre-game"
     \/ c.st.shouldClearTrick
    THEN c
  ELSE IF c.st.phase = "bidding" THEN gameReducer(c, CpuBid(c.st))
  ELSE IF c.st.phase = "playing"
    THEN IF c.st.trump = NoTrump THEN c ELSE CpuPlays(c, CpuCard(c.st))
  ELSE c

handleCpuPlay(c) ==
  IF ~c.st.players[c.st.currentPlayer].isCPU
     \/ c.st.players[c.st.currentPlayer].sittingOut
     \/ c.st.phase = "pre-game"
     \/ c.st.shouldClearTrick
    THEN c
  ELSE IF c.st.phase = "bidding" THEN gameReducer(c, CpuBid(c.st))
  ELSE IF c.st.phase = "playing"
    THEN IF c.st.trump = NoTrump THEN c ELSE CpuPlays(c, CpuCard(c.st))
  ELSE c

\* newState of gameReducer: the handler of the action alone
Handle(c, action) ==
  CASE action.type = "START_GAME" -> handleStartGame(c, action.dealer)
    [] action.type = "TOGGLE_LEARNING_MODE" -> handleToggleLearningMode(c)
    [] action.type = "DEAL" -> handleDeal(c)
    [] action.type = "PASS" -> handlePass(c)
    [] action.type = "SET_TRUMP" -> handleSetTrump(c, action)
    [] action.type = "PLAY_CARD" -> handlePlayCard(c, action)
    [] action.type = "CPU_PLAY" -> handleCpuPlay(c)
    [] action.type = "CLEAR_TRICK" -> handleClearTrick(c)

\* "if (tempDealState.phase === bidding && ...isCPU) CPU_PLAY" after the deal
\* that follows the last trick of a hand
AfterRedeal(tempDealState) ==
  IF tempDealState.st.phase = "bidding"
     /\ tempDealState.st.players[tempDealState.st.currentPlayer].isCPU
    THEN gameReducer(tempDealState, [type |-> "CPU_PLAY"])
    ELSE tempDealState

\* the follow-up gameReducer applies to newState n after the handler
FollowUp(n, action) ==
  CASE action.type = "DEAL" ->
         IF n.st.phase = "bidding" /\ n.st.players[n.st.currentPlayer].isCPU
           THEN gameReducer(n, [type |-> "CPU_PLAY"])
           ELSE n
    [] action.type = "PASS" ->
         IF n.st.phase = "bidding" /\ n.st.players[n.st.currentPlayer].isCPU
            /\ n.st.passCount < 4
           THEN gameReducer(n, [type |-> "CPU_PLAY"])
           ELSE n
    [] action.type = "SET_TRUMP" ->
         IF n.st.phase = "playing" /\ IsCpuTurn(n.st)
           THEN gameReducer(n, [type |-> "CPU_PLAY"])
           ELSE n
    [] action.type = "PLAY_CARD" ->
         IF n.st.shouldClearTrick
           THEN gameReducer(n, [type |-> "CLEAR_TRICK"])
         ELSE IF n.st.phase = "playing" /\ IsCpuTurn(n.st)
           THEN gameReducer(n, [type |-> "CPU_PLAY"])
         ELSE n
    [] action.type = "CLEAR_TRICK" ->
         IF n.st.phase = "playing" /\ IsCpuTurn(n.st)
           THEN gameReducer(n, [type |-> "CPU_PLAY"])
         ELSE IF n.st.phase = "dealing"
           THEN CHOOSE r \in { AfterRedeal(tempDealState) :
                                 tempDealState \in { gameReducer(n, [type |-> "DEAL"]) } } :
                  TRUE
         ELSE n
    [] OTHER -> n

\* the history notes newState of the dispatched action
Noted(first, newState) ==
  IF first THEN [newState EXCEPT !.h.mid = newState.st] ELSE newState

\* the missing state (undefined, null)
NoState == [undefined |-> TRUE]

\* an object that has a length but is no array
NotAnArray == [i \in {-1} |-> [length |-> 4]]

\* Array.isArray
IsArray(v) == \A i \in DOMAIN v : i >= 0

\* state.players, undefined when the state has no such property
PlayersOf(st) == IF "players" \in DOMAIN st THEN st.players ELSE Undefined

\* "!state || !Array.isArray(state.players) || state.players.length !== 4"
InvalidState(st) ==
  \/ st = NoState
  \/ ~IsArray(PlayersOf(st))
  \/ Cardinality(DOMAIN PlayersOf(st)) # 4

\* an invalid state that is handed back as it came
Recovered_KeepsState(c) == c

\* "return initialState" for an invalid state
Recovered(c) == [c EXCEPT !.st = initialState]

\* the body of gameReducer: the guard, the handler and the follow-up
Reducing(c, action) ==
  IF InvalidState(c.st)
    THEN Recovered(c)
    ELSE CHOOSE r \in { FollowUp(newState, action) :
                          newState \in { Noted(c.h.calls = 0,
                                               Handle([c EXCEPT !.h.calls = @ + 1],
                                                      action)) } } : TRUE

\* a call of gameReducer evaluates its two arguments once, before the body
gameReducer(c, action) ==
  CHOOSE r \in { Reducing(s, a) : s \in {c}, a \in {action} } : TRUE

(***************************************************************************)
(* The program: GameProvider holds the state and the components dispatch.  *)
(***************************************************************************)
\* the reducer applied to st, with rnd the value Math.random yields for the
\* shuffles of this call
Reduced(st, action, rnd) ==
  gameReducer([st |-> st,
               h |-> [hist EXCEPT !.plays = <<>>, !.resolutions = <<>>, !.steps = <<>>,
                                  !.calls = 0, !.mid = st],
               rnd |-> rnd],
              action)

\* the reducer's result r becomes the state; last remembers the action, the
\* state it was applied to and who applied it
Commit(result, action, pre, by) ==
  \E r \in {result} :
    /\ state' = r.st
    /\ hist' = r.h
    /\ last' = [action |-> action, pre |-> pre, by |-> by]
    /\ call' = call

\* GameProvider: dispatch applies the reducer to the current state
Dispatch(action, rnd) == Commit(Reduced(state, action, rnd), action, state, "ui")

\* no function of gameUtils is called on its own by the program
NoCall == [fn |-> "none", trump |-> NoTrump]

Init ==
  /\ state = initialState
  /\ hist = initialHist
  /\ last = [action |-> [type |-> "NONE"], pre |-> initialState, by |-> "ui"]
  /\ call = NoCall

\* the model stops dispatching game actions after MaxHands hands
InBounds == hist.hands <= MaxHands

\* a dispatch draws from Math.random only when it deals: in the playing phase
\* that takes the last trick of the hand, which the human seat plays in unless it
\* sits out
MayDeal(st) ==
  \/ st.phase # "playing"
  \/ st.players[0].sittingOut
  \/ Len(st.players[0].hand) <= 1

\* the values of Math.random a dispatch in st is tried with
Rnds(st) == IF MayDeal(st) THEN 1..NumShuffles ELSE {1}

HumanTurn == state.currentPlayer = 0 /\ ~state.players[state.currentPlayer].isCPU

\* EuchreGame: the "Let's Play!" button of the pre-game screen
StartGame ==
  /\ state.phase = "pre-game"
  /\ \E dealer \in Seats : Dispatch([type |-> "START_GAME", dealer |-> dealer], 1)

\* EuchreGame: useEffect on phase === "dealing"
Deal ==
  /\ state.phase = "dealing"
  /\ InBounds
  /\ \E rnd \in 1..NumShuffles : Dispatch([type |-> "DEAL"], rnd)

\* BiddingPanel: a suit button, with the "Go Alone" checkbox on or off
SetTrump ==
  /\ state.phase = "bidding"
  /\ HumanTurn
  /\ InBounds
  /\ \E suit \in Suits, goingAlone \in BOOLEAN, rnd \in 1..NumShuffles :
       Dispatch([type |-> "SET_TRUMP", suit |-> suit, goingAlone |-> goingAlone], rnd)

\* BiddingPanel: the Pass button, rendered unless the bidder is the dealer
Pass ==
  /\ state.phase = "bidding"
  /\ HumanTurn
  /\ state.currentPlayer # state.dealer
  /\ InBounds
  /\ \E rnd \in 1..NumShuffles : Dispatch([type |-> "PASS"], rnd)

\* PlayerHand and handleCardClick: a click on a card of the human hand
PlayCard ==
  /\ state.trump # NoTrump
  /\ state.phase = "playing"
  /\ HumanTurn
  /\ InBounds
  /\ \E card \in Range(state.players[0].hand), rnd \in Rnds(state) :
       /\ isValidPlay(card, state.players[state.currentPlayer].hand,
                      state.trickCards, state.trump)
       /\ Dispatch([type |-> "PLAY_CARD", card |-> card], rnd)

\* EuchreGame and GameProvider: the CPU_PLAY timers
CpuPlay ==
  /\ state.players[state.currentPlayer].isCPU
  /\ state.phase # "pre-game"
  /\ InBounds
  /\ \E rnd \in Rnds(state) : Dispatch([type |-> "CPU_PLAY"], rnd)

\* EuchreGame: the learning-mode switch
ToggleLearningMode ==
  /\ state.learningMode \in BOOLEAN
  /\ Dispatch([type |-> "TOGGLE_LEARNING_MODE"], 1)

\* EuchreGame: handleNewGame removes the saved state and reloads the page
NewGame ==
  /\ state.phase # "pre-game"
  /\ state' = initialState
  /\ hist' = initialHist
  /\ last' = [action |-> [type |-> "NONE"], pre |-> initialState, by |-> "ui"]
  /\ call' = call

Next ==
  \/ StartGame
  \/ Deal
  \/ SetTrump
  \/ Pass
  \/ PlayCard
  \/ CpuPlay
  \/ ToggleLearningMode
  \/ NewGame

Spec == Init /\ [][Next]_vars

(***************************************************************************)
(* The program while a game is played to its end: the timers fire in the   *)
(* end when their conditions hold, and the human seat bids and plays in    *)
(* the end when it is its turn; it does not abandon the game.              *)
(***************************************************************************)
LiveNext ==
  \/ StartGame
  \/ Deal
  \/ SetTrump
  \/ Pass
  \/ PlayCard
  \/ CpuPlay

LiveSpec ==
  /\ Init
  /\ [][LiveNext]_vars
  /\ WF_vars(StartGame)
  /\ WF_vars(Deal)
  /\ WF_vars(CpuPlay)
  /\ WF_vars(SetTrump \/ Pass)
  /\ WF_vars(PlayCard)

(***************************************************************************)
(* One application of gameReducer, call by call.  The calls the reducer    *)
(* makes of itself are kept in call.todo, the first one next; call.c is    *)
(* the configuration they are applied to.  Math.random is drawn anew at    *)
(* every DEAL of the chain.                                                *)
(***************************************************************************)
\* the calls one application of gameReducer may make before the model stops it
MaxChain == 220

\* the shuffles a DEAL of the chain may draw: those of the program and the
\* stacked one
ChainShuffles == 0..NumShuffles

\* stands in call.todo for the test gameReducer makes on tempDealState
AfterRedealMark == [type |-> "AFTER_REDEAL"]

\* the action handleCpuPlay hands to gameReducer, if any
CpuDispatch(c) ==
  IF ~c.st.players[c.st.currentPlayer].isCPU
     \/ c.st.players[c.st.currentPlayer].sittingOut
     \/ c.st.phase = "pre-game"
     \/ c.st.shouldClearTrick
    THEN <<>>
  ELSE IF c.st.phase = "bidding" THEN <<CpuBid(c.st)>>
  ELSE IF c.st.phase = "playing" /\ c.st.trump # NoTrump /\ CpuCard(c.st) # NoCard
    THEN <<[type |-> "PLAY_CARD", card |-> CpuCard(c.st)]>>
  ELSE <<>>

\* a reducer that clears the trick again after every CLEAR_TRICK of a hand that
\* goes on
FollowUpCalls_ClearsAgain(n, action) ==
  CASE action.type \in {"DEAL", "PASS"} ->
         IF n.st.phase = "bidding" /\ n.st.players[n.st.currentPlayer].isCPU
           THEN <<[type |-> "CPU_PLAY"]>>
           ELSE <<>>
    [] action.type = "SET_TRUMP" ->
         IF n.st.phase = "playing" /\ IsCpuTurn(n.st)
           THEN <<[type |-> "CPU_PLAY"]>>
           ELSE <<>>
    [] action.type = "PLAY_CARD" ->
         IF n.st.shouldClearTrick
           THEN <<[type |-> "CLEAR_TRICK"]>>
         ELSE IF n.st.phase = "playing" /\ IsCpuTurn(n.st)
           THEN <<[type |-> "CPU_PLAY"]>>
         ELSE <<>>
    [] action.type = "CLEAR_TRICK" ->
         IF n.st.phase = "playing"
           THEN <<[type |-> "CLEAR_TRICK"]>>
         ELSE IF n.st.phase = "dealing"
           THEN <<[type |-> "DEAL"], AfterRedealMark>>
         ELSE <<>>
    [] OTHER -> <<>>

\* the calls gameReducer makes after the handler of action has returned n
FollowUpCalls(n, action) ==
  CASE action.type = "DEAL" ->
         IF n.st.phase = "bidding" /\ n.st.players[n.st.currentPlayer].isCPU
           THEN <<[type |-> "CPU_PLAY"]>>
           ELSE <<>>
    [] action.type = "PASS" ->
         IF n.st.phase = "bidding" /\ n.st.players[n.st.currentPlayer].isCPU
            /\ n.st.passCount < 4
           THEN <<[type |-> "CPU_PLAY"]>>
           ELSE <<>>
    [] action.type = "SET_TRUMP" ->
         IF n.st.phase = "playing" /\ IsCpuTurn(n.st)
           THEN <<[type |-> "CPU_PLAY"]>>
           ELSE <<>>
    [] action.type = "PLAY_CARD" ->
         IF n.st.shouldClearTrick
           THEN <<[type |-> "CLEAR_TRICK"]>>
         ELSE IF n.st.phase = "playing" /\ IsCpuTurn(n.st)
           THEN <<[type |-> "CPU_PLAY"]>>
         ELSE <<>>
    [] action.type = "CLEAR_TRICK" ->
         IF n.st.phase = "playing" /\ IsCpuTurn(n.st)
           THEN <<[type |-> "CPU_PLAY"]>>
         ELSE IF n.st.phase = "dealing"
           THEN <<[type |-> "DEAL"], AfterRedealMark>>
         ELSE <<>>
    [] OTHER -> <<>>

\* the chain keeps the counters and the tricks of the history, not the states
Trimmed(c) == [c EXCEPT !.h.plays = <<>>, !.h.steps = <<>>, !.h.mid = initialState]

\* the first entry of todo done on configuration c: the configuration and the
\* calls that come of it
ChainCall(c, item) ==
  IF item = AfterRedealMark
    THEN [c |-> c,
          calls |-> IF c.st.phase = "bidding" /\ c.st.players[c.st.currentPlayer].isCPU
                      THEN <<[type |-> "CPU_PLAY"]>>
                      ELSE <<>>]
  ELSE IF InvalidState(c.st)
    THEN [c |-> Recovered(c), calls |-> <<>>]
  ELSE IF item.type = "CPU_PLAY"
    THEN [c |-> [c EXCEPT !.h.calls = @ + 1],
          calls |-> CpuDispatch(c)]
  ELSE [c |-> Trimmed(Handle([c EXCEPT !.h.calls = @ + 1], item)),
        calls |-> FollowUpCalls(Handle([c EXCEPT !.h.calls = @ + 1], item), item)]

\* what the components may dispatch in state st
Offered(st) ==
  (IF st.phase = "pre-game"
     THEN {[type |-> "START_GAME", dealer |-> dealer] : dealer \in Seats} ELSE {})
  \cup (IF st.phase = "dealing" THEN {[type |-> "DEAL"]} ELSE {})
  \cup (IF st.phase = "bidding" /\ st.currentPlayer = 0
          THEN {[type |-> "SET_TRUMP", suit |-> suit, goingAlone |-> goingAlone] :
                  suit \in Suits, goingAlone \in BOOLEAN}
               \cup (IF st.currentPlayer # st.dealer THEN {[type |-> "PASS"]} ELSE {})
          ELSE {})
  \cup (IF st.phase = "playing" /\ st.trump # NoTrump /\ st.currentPlayer = 0
          THEN {[type |-> "PLAY_CARD", card |-> card] :
                  card \in {x \in Range(st.players[0].hand) :
                              isValidPlay(x, st.players[0].hand, st.trickCards, st.trump)}}
          ELSE {})
  \cup (IF st.phase # "pre-game" /\ st.players[st.currentPlayer].isCPU
          THEN {[type |-> "CPU_PLAY"]} ELSE {})

\* dispatch: gameReducer is entered with the dispatched action
ChainStart ==
  /\ call.fn = "none"
  /\ InBounds
  /\ \E action \in Offered(state) :
       call' = [fn |-> "gameReducer",
                trump |-> NoTrump,
                action |-> action,
                c |-> [st |-> state,
                       h |-> [hist EXCEPT !.plays = <<>>, !.resolutions = <<>>,
                                          !.steps = <<>>, !.calls = 0,
                                          !.mid = initialState],
                       rnd |-> 1],
                todo |-> <<action>>]
  /\ UNCHANGED <<state, hist, last>>

\* the next call of the chain is made
ChainStep ==
  /\ call.fn = "gameReducer"
  /\ call.todo # <<>>
  /\ call.c.h.calls <= MaxChain
  /\ \E rnd \in (IF Head(call.todo).type = "DEAL" THEN ChainShuffles ELSE {call.c.rnd}) :
       \E r \in {ChainCall([call.c EXCEPT !.rnd = rnd], Head(call.todo))} :
         call' = [call EXCEPT !.c = r.c, !.todo = r.calls \o Tail(call.todo)]
  /\ UNCHANGED <<state, hist, last>>

\* no call is left: the application returns and its result becomes the state
ChainReturn ==
  /\ call.fn = "gameReducer"
  /\ call.todo = <<>>
  /\ state' = call.c.st
  /\ hist' = call.c.h
  /\ last' = [action |-> call.action, pre |-> state, by |-> "chain"]
  /\ call' = NoCall

ChainNext ==
  \/ ChainStart
  \/ ChainStep
  \/ ChainReturn

ChainSpec == Init /\ [][ChainNext]_vars

(***************************************************************************)
(* The reducer as an exported function: besides the dispatches of the UI,  *)
(* one caller applies it once to a state of the program with an action the *)
(* UI would not send there, and the run ends.  The learning-mode switch,  *)
(* which no handler of a game action reads, stays as it is.                *)
(***************************************************************************)
Called == last.by # "ui"

\* the cards a caller tries: those of the acting hand, the top of the kitty
\* and the first card of the next seat
TriedCards(st) ==
  Range(st.players[st.currentPlayer].hand)
  \cup {st.deck[i] : i \in 1..Len(st.deck) \cap {1}}
  \cup {st.players[(st.currentPlayer + 1) % 4].hand[i] :
          i \in 1..Len(st.players[(st.currentPlayer + 1) % 4].hand) \cap {1}}

\* PLAY_CARD applied to the state the program rests in
CallPlayCard ==
  /\ ~Called
  /\ InBounds
  /\ state.phase \in {"bidding", "playing"}
  /\ \E card \in TriedCards(state) :
       Commit(Reduced(state, [type |-> "PLAY_CARD", card |-> card], 1),
              [type |-> "PLAY_CARD", card |-> card], state, "call")

\* the actions that may arrive while a completed trick is shown
PauseActions(st) ==
  {[type |-> "PLAY_CARD", card |-> card] : card \in TriedCards(st)}
  \cup {[type |-> "CPU_PLAY"], [type |-> "CLEAR_TRICK"]}

\* an action applied to the state the completing PLAY_CARD handler returned,
\* the one with shouldClearTrick raised
CallDuringPause ==
  /\ ~Called
  /\ InBounds
  /\ hist.mid.shouldClearTrick
  /\ \E action \in PauseActions(hist.mid) :
       Commit(Reduced(hist.mid, action, 1), action, hist.mid, "pause")

\* the bidding actions a caller applies outside the bidding phase: a pass and
\* a call of each suit with the partner
BidActions ==
  {[type |-> "PASS"]}
  \cup {[type |-> "SET_TRUMP", suit |-> suit, goingAlone |-> FALSE] : suit \in Suits}

\* PASS or SET_TRUMP applied to a state the program rests in outside bidding
CallOutOfPhase ==
  /\ ~Called
  /\ InBounds
  /\ state.phase # "bidding"
  /\ \E action \in BidActions :
       Commit(Reduced(state, action, 1), action, state, "call")

\* START_GAME applied to a state the program rests in, in any phase and with
\* the learning-mode switch either way
CallStartGame ==
  /\ ~Called
  /\ InBounds
  /\ \E dealer \in Seats, learningMode \in BOOLEAN :
       Commit(Reduced([state EXCEPT !.learningMode = learningMode],
                      [type |-> "START_GAME", dealer |-> dealer], 1),
              [type |-> "START_GAME", dealer |-> dealer],
              [state EXCEPT !.learningMode = learningMode], "call")

\* one action of every type
AnyActions ==
  {[type |-> "START_GAME", dealer |-> dealer] : dealer \in {0, 3}}
  \cup {[type |-> type] : type \in {"TOGGLE_LEARNING_MODE", "DEAL", "PASS",
                                     "CPU_PLAY", "CLEAR_TRICK"}}
  \cup {[type |-> "SET_TRUMP", suit |-> "hearts", goingAlone |-> goingAlone] :
          goingAlone \in BOOLEAN}
  \cup {[type |-> "PLAY_CARD", card |-> [suit |-> "spades", rank |-> "A"]]}

\* the player list cut to its first n entries, or padded with a copy of the
\* last one
Resized(players, n) == [i \in 0..(n - 1) |-> players[IF i < 4 THEN i ELSE 3]]

\* a state without its player list
WithoutPlayers(st) == [f \in DOMAIN st \ {"players"} |-> st[f]]

\* the structurally invalid values made of the state st: no state, no player
\* list, a player list that is no array, and player lists of other lengths
Corrupted(st) ==
  {NoState, WithoutPlayers(st)}
  \cup {[st EXCEPT !.players = v] : v \in {Undefined, NotAnArray}}
  \cup {[st EXCEPT !.players = Resized(st.players, n)] : n \in {0, 3, 5}}

\* an action applied to an invalid value, made of a state the program rests
\* in before the first card of a hand is played
CallInvalid ==
  /\ ~Called
  /\ InBounds
  /\ state.phase # "playing"
  /\ \E action \in AnyActions, st \in Corrupted(state) :
       Commit(Reduced(st, action, 1), action, st, "invalid")

\* a CPU_PLAY timer that fires late: CPU_PLAY applied to a state in which the
\* effect would not have started the timer
CallStaleCpuPlay ==
  /\ ~Called
  /\ InBounds
  /\ ~(state.players[state.currentPlayer].isCPU /\ state.phase # "pre-game")
  /\ Commit(Reduced(state, [type |-> "CPU_PLAY"], 1), [type |-> "CPU_PLAY"], state, "call")

\* a CLEAR_TRICK that comes again: applied to a state the program rests in
\* with the trick already empty and shouldClearTrick lowered
CallClearAgain ==
  /\ ~Called
  /\ InBounds
  /\ state.trickCards = <<>>
  /\ ~state.shouldClearTrick
  /\ \E rnd \in 1..NumShuffles :
       Commit(Reduced(state, [type |-> "CLEAR_TRICK"], rnd),
              [type |-> "CLEAR_TRICK"], state, "call")

ApiNext ==
  \/ ~Called /\ StartGame
  \/ ~Called /\ Deal
  \/ ~Called /\ SetTrump
  \/ ~Called /\ Pass
  \/ ~Called /\ PlayCard
  \/ ~Called /\ CpuPlay
  \/ ~Called /\ NewGame
  \/ CallPlayCard
  \/ CallDuringPause
  \/ CallOutOfPhase
  \/ CallStartGame
  \/ CallInvalid
  \/ CallStaleCpuPlay
  \/ CallClearAgain

ApiSpec == Init /\ [][ApiNext]_vars

(***************************************************************************)
(* The functions of gameUtils called on their own: the trump suit is drawn *)
(* first, then one function is applied once to arguments drawn from the    *)
(* cards of the deck, and the run ends.                                    *)
(***************************************************************************)
\* cards of the hands isValidPlay is tried with
MaxHandLen == 2

\* the decks dealCards is tried with: the ordered deck, the decks createDeck
\* returns, what is left of the ordered deck when cards are missing from its
\* end, and no deck
TriedDecks ==
  {OrderedDeck}
  \cup {createDeck(n) : n \in 1..NumShuffles}
  \cup {SubSeq(OrderedDeck, 1, k) : k \in 0..19}
  \cup {Undefined}

UtilInit ==
  /\ state = initialState
  /\ hist = initialHist
  /\ last = [action |-> [type |-> "NONE"], pre |-> initialState, by |-> "ui"]
  /\ call \in {[fn |-> "none", trump |-> trump] : trump \in Suits}

\* getRankValue applied to a card
CallGetRankValue ==
  /\ call.fn = "none"
  /\ \E card \in AllCards :
       call' = [fn |-> "getRankValue", trump |-> call.trump, card |-> card,
                result |-> getRankValue(card, call.trump)]
  /\ UNCHANGED <<state, hist, last>>

\* the trick of the last call of determineWinner
TrickOf(c) == IF c.fn = "determineWinner" THEN c.trick ELSE <<>>

\* one more card is played to the trick and determineWinner applied to it
CallDetermineWinner ==
  /\ call.fn \in {"none", "determineWinner"}
  /\ Len(TrickOf(call)) < 4
  /\ \E card \in AllCards \ Range(TrickOf(call)) :
       call' = [fn |-> "determineWinner", trump |-> call.trump,
                trick |-> Append(TrickOf(call), card),
                result |-> determineWinner(Append(TrickOf(call), card), call.trump)]
  /\ UNCHANGED <<state, hist, last>>

\* the hand picked up so far
HandOf(c) == IF c.fn = "hand" THEN c.hand ELSE <<>>

\* one more card is picked up into the hand
PickUp ==
  /\ call.fn \in {"none", "hand"}
  /\ Len(HandOf(call)) < MaxHandLen
  /\ \E card \in AllCards \ Range(HandOf(call)) :
       call' = [fn |-> "hand", trump |-> call.trump, hand |-> Append(HandOf(call), card)]
  /\ UNCHANGED <<state, hist, last>>

\* the first card of the ordered deck that is neither in the hand nor in the
\* trick
Outsider(hand, trick) ==
  OrderedDeck[CHOOSE i \in 1..24 :
                /\ OrderedDeck[i] \notin Range(hand) \cup Range(trick)
                /\ \A j \in 1..(i - 1) : OrderedDeck[j] \in Range(hand) \cup Range(trick)]

\* the cards isValidPlay is asked about: those of the hand, the lead card and
\* one card that is in neither
AskedCards(hand, trick) == Range(hand) \cup Range(trick) \cup {Outsider(hand, trick)}

\* the tricks isValidPlay is tried with for a hand: the empty trick and the
\* tricks of one card that is not in the hand
LeadTricks(hand) == {<<>>} \cup {<<lead>> : lead \in AllCards \ Range(hand)}

\* isValidPlay applied to a card, the hand picked up and a trick that is empty
\* or holds its lead card
CallIsValidPlay ==
  /\ call.fn \in {"none", "hand"}
  /\ \E trick \in LeadTricks(HandOf(call)) :
      \E cardToPlay \in AskedCards(HandOf(call), trick) :
       call' = [fn |-> "isValidPlay", trump |-> call.trump, cardToPlay |-> cardToPlay,
                hand |-> HandOf(call), trick |-> trick,
                result |-> isValidPlay(cardToPlay, HandOf(call), trick, call.trump)]
  /\ UNCHANGED <<state, hist, last>>

\* dealCards applied to a deck, with n the value Math.random yields
CallDealCards ==
  /\ call.fn = "none"
  /\ \E deck \in TriedDecks, n \in 1..NumShuffles :
       call' = [fn |-> "dealCards", trump |-> call.trump, deck |-> deck, n |-> n,
                result |-> dealCards(deck, n)]
  /\ UNCHANGED <<state, hist, last>>

UtilNext ==
  \/ CallGetRankValue
  \/ CallDetermineWinner
  \/ PickUp
  \/ CallIsValidPlay
  \/ CallDealCards

UtilSpec == UtilInit /\ [][UtilNext]_vars

(***************************************************************************)
(* The bidding branch of handleCpuPlay on its own: a hand of five cards is *)
(* dealt to seat 1, in the order of the deck since the scores count cards  *)
(* whatever their order, and the branch decides its bid for each dealer.   *)
(***************************************************************************)
\* position of a card in the ordered deck
DeckIndex(card) == CHOOSE i \in 1..24 : OrderedDeck[i] = card

\* the hand dealt to the bidder so far
BidHandOf(c) == IF c.fn = "bidHand" THEN c.hand ELSE <<>>

\* the cards that may come next: those after the last card of the hand
NextCards(hand) ==
  {OrderedDeck[i] : i \in (IF Len(hand) = 0 THEN 1 ELSE DeckIndex(hand[Len(hand)]) + 1)..24}

\* one more card is dealt to the bidder
DealToBidder ==
  /\ call.fn \in {"none", "bidHand"}
  /\ Len(BidHandOf(call)) < 5
  /\ \E card \in NextCards(BidHandOf(call)) :
       call' = [fn |-> "bidHand", trump |-> NoTrump, hand |-> Append(BidHandOf(call), card)]
  /\ UNCHANGED <<state, hist, last>>

\* the state of seat 1's bidding turn with the hand, for a dealer: the seats
\* between the dealer and seat 1 have passed
BiddingTurn(hand, dealer) ==
  [initialState EXCEPT !.phase = "bidding",
                       !.dealer = dealer,
                       !.currentPlayer = 1,
                       !.passCount = (5 - (dealer + 1)) % 4,
                       !.players = SetHand(initialPlayers, 1, hand)]

\* the bidding branch of handleCpuPlay decides for the hand
CallCpuBid ==
  /\ call.fn = "bidHand"
  /\ Len(call.hand) = 5
  /\ \E dealer \in Seats :
       call' = [fn |-> "cpuBid", trump |-> NoTrump, hand |-> call.hand,
                dealer |-> dealer,
                passCount |-> BiddingTurn(call.hand, dealer).passCount,
                result |-> CpuBid(BiddingTurn(call.hand, dealer))]
  /\ UNCHANGED <<state, hist, last>>

BidInit ==
  /\ state = initialState
  /\ hist = initialHist
  /\ last = [action |-> [type |-> "NONE"], pre |-> initialState, by |-> "ui"]
  /\ call = NoCall

BidNext ==
  \/ DealToBidder
  \/ CallCpuBid

BidSpec == BidInit /\ [][BidNext]_vars

(***************************************************************************)
(* getBestPlay on its own: the trump suit is drawn first, a hand is picked *)
(* up in the order of the deck, and getBestPlay is applied to it and to a  *)
(* trick of cards that are not in the hand, the way handleCpuPlay calls    *)
(* it: with the hand sizes and without partnerIsWinning.                   *)
(***************************************************************************)
\* cards of the tricks getBestPlay is tried with
MaxTrickLen == 2

\* the hand held so far
HeldOf(c) == IF c.fn = "held" THEN c.hand ELSE <<>>

\* one more card is taken into the hand
TakeCard ==
  /\ call.fn \in {"none", "held"}
  /\ Len(HeldOf(call)) < MaxHandLen
  /\ \E card \in NextCards(HeldOf(call)) :
       call' = [fn |-> "held", trump |-> call.trump, hand |-> Append(HeldOf(call), card)]
  /\ UNCHANGED <<state, hist, last>>

\* the tricks of n distinct cards none of which is in the set held
RECURSIVE TricksOf(_, _)
TricksOf(n, held) ==
  IF n = 0 THEN {<<>>}
  ELSE UNION {{Append(t, card) : card \in AllCards \ (held \cup Range(t))} :
                t \in TricksOf(n - 1, held)}

\* getBestPlay applied to the hand and a trick
CallGetBestPlay ==
  /\ call.fn = "held"
  /\ \E n \in 0..MaxTrickLen :
      \E trick \in TricksOf(n, Range(call.hand)) :
       call' = [fn |-> "getBestPlay", trump |-> call.trump, hand |-> call.hand,
                trick |-> trick,
                result |-> getBestPlay(call.hand, trick, call.trump,
                                       [i \in 1..4 |-> Len(call.hand)], FALSE)]
  /\ UNCHANGED <<state, hist, last>>

PlayInit ==
  /\ state = initialState
  /\ hist = initialHist
  /\ last = [action |-> [type |-> "NONE"], pre |-> initialState, by |-> "ui"]
  /\ call \in {[fn |-> "none", trump |-> trump] : trump \in Suits}

PlayNext ==
  \/ TakeCard
  \/ CallGetBestPlay

PlaySpec == PlayInit /\ [][PlayNext]_vars

(***************************************************************************)
(* Properties of trick play.                                               *)
(***************************************************************************)
SittingOut(st) == {i \in Seats : st.players[i].sittingOut}

\* the first seat clockwise after seat that is not sitting out
NextActive(st, seat) ==
  (seat + (CHOOSE k \in 1..4 :
             /\ (seat + k) % 4 \notin SittingOut(st)
             /\ \A j \in 1..(k - 1) : (seat + j) % 4 \in SittingOut(st))) % 4

\* the seat that played the winning card of a resolved trick
WinningSeat(r) == r.seats[determineWinner(r.cards, r.trump) + 1]

\* a hand without the card
Without(hand, card) ==
  LET Other(x) == x # card
  IN  SelectSeq(hand, Other)

Completing(p) == p.post.shouldClearTrick

\* C1: whenever a PLAY_CARD completes a trick, the seat that becomes current
\* player, and whose team gets the point, is the seat that played the winning
\* card, whichever seat led and also when a seat sits out.
C1_WinnerIsSeatThatPlayed ==
  \A i \in 1..Len(hist.resolutions) :
    /\ hist.resolutions[i].winner = WinningSeat(hist.resolutions[i])
    /\ hist.resolutions[i].after[(WinningSeat(hist.resolutions[i]) % 2) + 1]
         = hist.resolutions[i].before[(WinningSeat(hist.resolutions[i]) % 2) + 1] + 1

C3_CompletedTrickAwaitsClear ==
  (/\ last.by = "ui"
   /\ last.action.type = "PLAY_CARD"
   /\ Len(hist.plays) > 0
   /\ Completing(hist.plays[1]))
    => /\ state.shouldClearTrick
       /\ state.trickCards = hist.plays[1].post.trickCards

\* C4: while shouldClearTrick is raised a PLAY_CARD or CPU_PLAY is rejected and
\* leaves the state as it was.
C4_PauseRejectsPlays ==
  (/\ last.by = "pause"
   /\ last.action.type \in {"PLAY_CARD", "CPU_PLAY"})
    => state = last.pre

\* PLAY_CARD(card) must be rejected in st
Rejected(st, card) ==
  \/ st.trump = NoTrump
  \/ st.currentPlayer \in SittingOut(st)
  \/ card \notin Range(st.players[st.currentPlayer].hand)
  \/ ~isValidPlay(card, st.players[st.currentPlayer].hand, st.trickCards, st.trump)

PlayFrame(p) ==
  /\ p.post.players[p.pre.currentPlayer].hand
       = Without(p.pre.players[p.pre.currentPlayer].hand, p.card)
  /\ Len(p.post.players[p.pre.currentPlayer].hand)
       = Len(p.pre.players[p.pre.currentPlayer].hand) - 1
  /\ p.post.trickCards = Append(p.pre.trickCards, p.card)
  /\ \A i \in Seats \ {p.pre.currentPlayer} : p.post.players[i] = p.pre.players[i]
  /\ p.post.deck = p.pre.deck
  /\ p.post.dealer = p.pre.dealer
  /\ p.post.trump = p.pre.trump
  /\ p.post.trumpSelector = p.pre.trumpSelector
  /\ ~Completing(p) =>
       /\ p.post.scores = p.pre.scores
       /\ p.post.currentPlayer = NextActive(p.pre, p.pre.currentPlayer)

C7_OnePointToWinningTeam ==
  /\ \A i \in 1..Len(hist.resolutions) :
       hist.resolutions[i].after
         = Credit(hist.resolutions[i].before, WinningSeat(hist.resolutions[i]))
  /\ (Len(hist.resolutions) = 0 /\ last.action.type \notin {"START_GAME", "NONE"})
       => state.scores = last.pre.scores

CardsHeld(st) ==
  Len(st.players[0].hand) + Len(st.players[1].hand) + Len(st.players[2].hand)
  + Len(st.players[3].hand) + Len(st.deck) + Len(st.trickCards)

InHand(st) == st.phase \in {"bidding", "playing"}

\* C8: from a successful DEAL until the hand rolls over, the hand sizes, the
\* deck size and the trick size add up to 24, also after tricks were cleared.
C8_CardsHeldIs24 ==
  (last.by = "ui" /\ InHand(state)) => CardsHeld(state) = 24

\* C8 as amended: from a successful DEAL until the hand rolls over, the hand
\* sizes, the deck size, the trick size and the number of cards CLEAR_TRICK
\* has removed from the trick since the deal add up to 24.
C8_CardsHeldAndClearedIs24 ==
  (last.by = "ui" /\ InHand(state)) => CardsHeld(state) + hist.cleared = 24

\* a hand in which a trick has been cleared and another is under way
C8_Witness ==
  /\ last.by = "ui"
  /\ state.phase = "playing"
  /\ hist.cleared > 0
  /\ Len(state.trickCards) > 0

AllHeld(st) ==
  st.players[0].hand \o st.players[1].hand \o st.players[2].hand
  \o st.players[3].hand \o st.deck \o st.trickCards

NoDuplicate(st) == Cardinality(Range(AllHeld(st))) = Len(AllHeld(st))

\* C9: in every state, also those between the plays of a chain, no card
\* (suit and rank) occurs twice across the four hands, the deck and the trick.
C9_NoCardTwice ==
  (last.by = "ui") =>
    /\ NoDuplicate(state)
    /\ \A i \in 1..Len(hist.plays) : NoDuplicate(hist.plays[i].post)

\* a state with cards in the hands, in the kitty and on the table
C9_Witness ==
  /\ last.by = "ui"
  /\ Len(state.trickCards) > 1
  /\ Len(state.deck) = 4
  /\ Len(hist.plays) > 1

TrickFits(st) == Len(st.trickCards) <= Cardinality(Seats \ SittingOut(st))

\* C10: in every state, also those between the plays of a chain, the trick
\* holds at most as many cards as there are seats not sitting out.
C10_TrickFitsActivePlayers ==
  (last.by = "ui") =>
    /\ TrickFits(state)
    /\ \A i \in 1..Len(hist.plays) : TrickFits(hist.plays[i].post)

\* a trick of 3 cards with a seat sitting out, after one of the same hand
C10_Witness ==
  /\ last.by = "ui"
  /\ hist.cleared > 0
  /\ \E i \in 1..Len(hist.plays) :
       /\ SittingOut(hist.plays[i].post) # {}
       /\ Len(hist.plays[i].post.trickCards) = 3

(***************************************************************************)
(* Properties of the phases and of bidding.                                *)
(***************************************************************************)
\* the states of the last dispatch: the one the program rests in and the one
\* each handler returned on the way to it
StatesSeen ==
  {state, hist.mid}
  \cup {hist.steps[i].post : i \in 1..Len(hist.steps)}
  \cup {hist.plays[i].post : i \in 1..Len(hist.plays)}

\* the steps of the last dispatch that applied an action of this type
StepsOf(type) == {i \in 1..Len(hist.steps) : hist.steps[i].action.type = type}

TrumpMatchesPhase(st) ==
  /\ st.phase = "playing" => st.trump # NoTrump
  /\ st.phase = "bidding" => st.trump = NoTrump

\* C11: in every reachable state with phase playing the trump suit is defined
\* and in every reachable state with phase bidding, of the first hand and of
\* every later hand, it is undefined.
C11_TrumpMatchesPhase == \A st \in StatesSeen : TrumpMatchesPhase(st)

\* the bidding of a second hand, dealt over a hand that had a trump
C11_Witness ==
  /\ state.phase = "bidding"
  /\ hist.hands = 2
  /\ \E i \in StepsOf("DEAL") :
       /\ hist.steps[i].pre.trump # NoTrump
       /\ hist.steps[i].post = state

SittingOutIsPartner(st) ==
  /\ Cardinality(SittingOut(st)) <= 1
  /\ \A i \in SittingOut(st) : st.goingAlone /\ i = (st.trumpSelector + 2) % 4
  /\ st.phase = "bidding" => SittingOut(st) = {}

\* C12: in every reachable state at most one player sits out, and only the
\* partner of the recorded trump caller while goingAlone is true; no flag
\* survives into the bidding of the next hand.
C12_SittingOutIsPartner == \A st \in StatesSeen : SittingOutIsPartner(st)

\* the bidding of a second hand, dealt over a hand in which a seat sat out
C12_Witness ==
  /\ state.phase = "bidding"
  /\ hist.hands = 2
  /\ \E i \in StepsOf("DEAL") : SittingOut(hist.steps[i].pre) # {}

DealerForcedTurn(st) ==
  /\ st.phase = "bidding"
  /\ st.currentPlayer = st.dealer
  /\ st.players[st.currentPlayer].isCPU
  /\ st.passCount = 3

\* the bidding steps of the last dispatch taken on such a turn
ForcedSteps ==
  {i \in StepsOf("SET_TRUMP") \cup StepsOf("PASS") : DealerForcedTurn(hist.steps[i].pre)}

\* the dealer called: phase playing, trump defined, the dealer recorded
DealerCalled(s) ==
  /\ s.action.type = "SET_TRUMP"
  /\ s.post.phase = "playing"
  /\ s.post.trump # NoTrump
  /\ s.post.trumpSelector = s.pre.dealer

\* maxScore of the hand of the seat to bid
BestScore(st) == BestBid(st.players[st.currentPlayer].hand).maxScore

\* C14 as claimed: on the bidding turn of an automated dealer after three
\* passes the outcome is, for every hand, phase playing with trump defined, the
\* dealer recorded as caller and goingAlone false; the dealer never passes and
\* never goes alone.
C14_ForcedDealerNeverAlone ==
  \A i \in ForcedSteps :
    DealerCalled(hist.steps[i]) /\ ~hist.steps[i].post.goingAlone

\* C14 amended: on that turn the dealer never passes and the outcome is phase
\* playing with trump defined and the dealer recorded as caller; goingAlone is
\* false when the call is forced, and the dealer goes alone exactly when its
\* best score reaches the go-alone threshold, as on any other turn.
C14_ForcedDealerCalls ==
  \A i \in ForcedSteps :
    /\ DealerCalled(hist.steps[i])
    /\ hist.steps[i].post.goingAlone
         <=> BestScore(hist.steps[i].pre) >= goAloneThreshold

\* a forced call: no suit reaches the call threshold and the dealer calls
C14_Witness ==
  \E i \in ForcedSteps :
    /\ BestScore(hist.steps[i].pre) < callTrumpThreshold
    /\ DealerCalled(hist.steps[i])
    /\ ~hist.steps[i].post.goingAlone

\* the toast of handlePass was raised by this step
DealerMustSelect(s) == Len(s.toasts) > 0

\* C15: the PASS that is the third of a bidding round and moves the turn onto
\* the dealer raises the "dealer must select trump" signal, and no other PASS
\* raises it.
C15_ThirdPassSignalsDealer ==
  \A i \in StepsOf("PASS") :
    (/\ hist.steps[i].post.passCount = 3
     /\ hist.steps[i].post.currentPlayer = hist.steps[i].post.dealer)
      <=> DealerMustSelect(hist.steps[i])

\* C16: an action applied in the wrong phase is rejected with the state
\* unchanged: PASS and SET_TRUMP outside bidding, PLAY_CARD outside playing.
C16_WrongPhaseRejected ==
  (/\ last.by = "call"
   /\ \/ last.action.type \in {"PASS", "SET_TRUMP"} /\ last.pre.phase # "bidding"
      \/ last.action.type = "PLAY_CARD" /\ last.pre.phase # "playing")
    => state = last.pre

(***************************************************************************)
(* What the reducer returns for an action the UI dispatched.               *)
(***************************************************************************)
Dispatched(type) == last.by = "ui" /\ last.action.type = type

\* C17: the state a successful DEAL returns has phase bidding, current player
\* (dealer + 1) mod 4, an empty trick, no trump, 5 cards in each hand and 4 in
\* the deck, for every dealer seat, also when the seat left of the dealer is
\* automated.
C17_DealReturnsBidding ==
  Dispatched("DEAL") =>
    /\ state.phase = "bidding"
    /\ state.currentPlayer = (last.pre.dealer + 1) % 4
    /\ state.trickCards = <<>>
    /\ state.trump = NoTrump
    /\ \A i \in Seats : Len(state.players[i].hand) = 5
    /\ Len(state.deck) = 4

\* C18: the state SET_TRUMP(suit, goingAlone) returns on seat c's bidding turn
\* has trump suit, caller c, phase playing, current player (dealer + 1) mod 4
\* and goingAlone as given; seat (c + 2) mod 4 sits out if goingAlone, no seat
\* otherwise.
C18_SetTrumpReturnsPlaying ==
  (Dispatched("SET_TRUMP") /\ last.pre.phase = "bidding") =>
    /\ state.trump = last.action.suit
    /\ state.trumpSelector = last.pre.currentPlayer
    /\ state.phase = "playing"
    /\ state.currentPlayer = (last.pre.dealer + 1) % 4
    /\ state.goingAlone = last.action.goingAlone
    /\ SittingOut(state) = IF last.action.goingAlone
                             THEN {(last.pre.currentPlayer + 2) % 4}
                             ELSE {}

\* C19: PASS in the bidding phase increases the pass counter by exactly 1 and
\* moves the current player to (current + 1) mod 4, skipping no seat; phase,
\* dealer, hands, deck, trump and scores are unchanged.
C19_PassFrame ==
  (Dispatched("PASS") /\ last.pre.phase = "bidding") =>
    /\ state.passCount = last.pre.passCount + 1
    /\ state.currentPlayer = (last.pre.currentPlayer + 1) % 4
    /\ state.phase = last.pre.phase
    /\ state.dealer = last.pre.dealer
    /\ state.players = last.pre.players
    /\ state.deck = last.pre.deck
    /\ state.trump = last.pre.trump
    /\ state.scores = last.pre.scores

\* every player that is not sitting out has played all its cards
ActiveHandsEmpty(st) ==
  \A i \in Seats \ SittingOut(st) : Len(st.players[i].hand) = 0

C21_ClearFrame ==
  (/\ last.by = "pause"
   /\ last.action.type = "CLEAR_TRICK"
   /\ ~ActiveHandsEmpty(last.pre))
    => state = [last.pre EXCEPT !.trickCards = <<>>, !.shouldClearTrick = FALSE]

\* the state START_GAME is specified to return for a state pre and a dealer
StartedState(pre, dealer) ==
  [phase |-> "dealing",
   dealer |-> dealer,
   scores |-> <<0, 0>>,
   players |-> [i \in Seats |-> [initialPlayers[i] EXCEPT !.hand = <<>>]],
   trickCards |-> <<>>,
   trump |-> NoTrump,
   passCount |-> 0,
   goingAlone |-> FALSE,
   learningMode |-> pre.learningMode]

\* C22: START_GAME applied to any state of the game returns phase dealing, a dealer in
\* 0..3, scores [0,0], four empty hands, an empty trick, no trump, pass counter
\* 0 and goingAlone false, and keeps of the earlier state only the learning
\* mode
C22_StartGameResets ==
  (last.action.type = "START_GAME" /\ ~InvalidState(last.pre))
    => /\ last.action.dealer \in 0..3
       /\ \A f \in DOMAIN StartedState(last.pre, last.action.dealer) :
            state[f] = StartedState(last.pre, last.action.dealer)[f]
       /\ \A f \in DOMAIN state \ DOMAIN StartedState(last.pre, last.action.dealer) :
            state[f] = initialState[f]

\* START_GAME was applied in the middle of a hand, with points scored, a seat
\* sitting out and learning mode on
C22_Witness ==
  /\ last.action.type = "START_GAME"
  /\ last.by = "call"
  /\ last.pre.phase = "playing"
  /\ last.pre.scores # <<0, 0>>
  /\ last.pre.goingAlone
  /\ last.pre.learningMode
  /\ last.pre.trickCards # <<>>
  /\ state.learningMode

\* the state the reducer returns for TOGGLE_LEARNING_MODE applied to st
Toggled(st) == Reduced(st, [type |-> "TOGGLE_LEARNING_MODE"], 1).st

\* C23: TOGGLE_LEARNING_MODE is accepted in every phase and flips the
\* learning-mode flag only, every other field of the state staying as it was;
\* applied twice it returns the state it started from
C23_ToggleFrame ==
  /\ Dispatched("TOGGLE_LEARNING_MODE")
       => /\ state.learningMode = ~last.pre.learningMode
          /\ state = [last.pre EXCEPT !.learningMode = state.learningMode]
  /\ Toggled(state) = [state EXCEPT !.learningMode = ~state.learningMode]
  /\ Toggled(Toggled(state)) = state

\* learning mode was switched in the middle of a trick of the playing phase
C23_Witness ==
  /\ Dispatched("TOGGLE_LEARNING_MODE")
  /\ last.pre.phase = "playing"
  /\ last.pre.trickCards # <<>>
  /\ last.pre.scores # <<0, 0>>
  /\ state.learningMode # last.pre.learningMode

\* C24: whatever the action, the reducer applied to a structurally invalid
\* state (no state, no player list, a player list that is no array or not of
\* length 4) returns exactly the initial state
C24_InvalidStateResets ==
  last.by = "invalid" => state = initialState

\* an action was applied to a state whose player list has three entries, cards
\* dealt, and the state returned is the initial state
C24_Witness ==
  /\ last.by = "invalid"
  /\ last.action.type = "PASS"
  /\ last.pre # NoState
  /\ IsArray(PlayersOf(last.pre))
  /\ DOMAIN PlayersOf(last.pre) = 0..2
  /\ last.pre.phase = "bidding"
  /\ state = initialState

(***************************************************************************)
(* Properties of the functions of gameUtils.                               *)
(***************************************************************************)
\* the cards of the last call of determineWinner that contend for the trick,
\* as 1-based positions: those whose effective suit is trump or that of the
\* lead card
Contenders(c) ==
  {i \in 1..Len(c.trick) :
     getEffectiveSuit(c.trick[i], c.trump)
       \in {c.trump, getEffectiveSuit(c.trick[1], c.trump)}}

\* C25: determineWinner returns the index of the card of greatest rank value
\* among the cards whose effective suit is trump or the effective suit of the
\* lead card; a card that does not contend never wins
C25_WinnerIsGreatestContender ==
  call.fn = "determineWinner"
    => /\ call.result + 1 \in Contenders(call)
       /\ \A i \in Contenders(call) :
            getRankValue(call.trick[i], call.trump)
              <= getRankValue(call.trick[call.result + 1], call.trump)

\* the left bower wins 9 of diamonds, 9 of spades, ace of diamonds, jack of
\* diamonds under hearts, at index 3
C25_Witness ==
  /\ call.fn = "determineWinner"
  /\ call.trump = "hearts"
  /\ call.trick = <<Card("9", "diamonds"), Card("9", "spades"),
                    Card("A", "diamonds"), Card("J", "diamonds")>>
  /\ call.result = 3

\* C26: isValidPlay is true exactly when the card is in the hand and the trick
\* is empty, or the hand holds no card of the lead card's effective suit, or
\* the card's effective suit is that of the lead card
C26_ValidPlayIffFollows ==
  call.fn = "isValidPlay"
    => (call.result
          <=> /\ call.cardToPlay \in Range(call.hand)
              /\ \/ call.trick = <<>>
                 \/ \A held \in Range(call.hand) :
                      getEffectiveSuit(held, call.trump)
                        # getEffectiveSuit(call.trick[1], call.trump)
                 \/ getEffectiveSuit(call.cardToPlay, call.trump)
                      = getEffectiveSuit(call.trick[1], call.trump))

\* trump was led to a hand of the left bower and another card of the bower's
\* printed suit: the bower may be played, the other card may not
C26_Witness ==
  /\ call.fn = "isValidPlay"
  /\ call.trick # <<>>
  /\ Len(call.hand) = 2
  /\ getEffectiveSuit(call.trick[1], call.trump) = call.trump
  /\ call.hand[1].rank = "J"
  /\ call.hand[1].suit = getLeftBowerSuit(call.trump)
  /\ call.hand[2].suit = call.hand[1].suit
  /\ call.cardToPlay = call.hand[2]
  /\ ~call.result

\* index of a rank in 9, 10, J, Q, K, A
BaseIndex(rank) ==
  CASE rank = "9" -> 0 [] rank = "10" -> 1 [] rank = "J" -> 2
    [] rank = "Q" -> 3 [] rank = "K" -> 4 [] rank = "A" -> 5

\* the other suit of the same colour
SameColour(suit) ==
  CASE suit = "hearts" -> "diamonds" [] suit = "diamonds" -> "hearts"
    [] suit = "spades" -> "clubs" [] suit = "clubs" -> "spades"

\* C27: the rank value is 18 for the right bower, 17 for the left bower, the
\* base index plus 11 for any other trump card and the base index plus 5 for a
\* card that is not trump
C27_RankValues ==
  call.fn = "getRankValue"
    => call.result =
         (IF call.card.rank = "J" /\ call.card.suit = call.trump THEN 18
          ELSE IF call.card.rank = "J" /\ call.card.suit = SameColour(call.trump) THEN 17
          ELSE IF call.card.suit = call.trump THEN BaseIndex(call.card.rank) + 11
          ELSE BaseIndex(call.card.rank) + 5)

\* getRankValue was applied to the left bower and returned 17
C27_Witness ==
  /\ call.fn = "getRankValue"
  /\ call.card = Card("J", SameColour(call.trump))
  /\ call.result = 17

\* C28: no two distinct cards that contend for the same trick have the same
\* rank value
C28_ContendersDiffer ==
  call.fn = "determineWinner"
    => \A i, j \in Contenders(call) :
         i # j => getRankValue(call.trick[i], call.trump)
                    # getRankValue(call.trick[j], call.trump)

\* a trick of four contending cards: a card not trump led, followed in suit,
\* and both bowers
C28_Witness ==
  /\ call.fn = "determineWinner"
  /\ Len(call.trick) = 4
  /\ Contenders(call) = 1..4
  /\ getEffectiveSuit(call.trick[1], call.trump) # call.trump
  /\ call.trick[2].suit = call.trick[1].suit
  /\ call.trick[3] = Card("J", SameColour(call.trump))
  /\ call.trick[4] = Card("J", call.trump)

\* how often a card occurs in the hands and the remaining deck of a deal
Occurrences(card, dealResult) ==
  Cardinality({x \in Seats \X (1..5) :
                 /\ x[2] <= Len(dealResult.hands[x[1]])
                 /\ dealResult.hands[x[1]][x[2]] = card})
  + Cardinality({i \in 1..Len(dealResult.remainingDeck) : dealResult.remainingDeck[i] = card})

\* the deck holds 24 distinct cards
FullDeck(deck) ==
  /\ deck # Undefined
  /\ Len(deck) = 24
  /\ \A i, j \in 1..24 : i # j => deck[i] # deck[j]

\* no deck, or one of fewer than 20 cards
ShortDeck(deck) == deck = Undefined \/ Len(deck) < 20

\* C29: dealCards applied to 24 distinct cards returns four hands of five cards
\* and a remaining deck of four that together hold every card of the deck
\* exactly once; applied to fewer than 20 cards or to no deck it reports
\* failure and returns no hands
C29_DealPartitionsDeck ==
  call.fn = "dealCards"
    => /\ FullDeck(call.deck)
            => /\ call.result.ok
               /\ DOMAIN call.result.hands = Seats
               /\ \A p \in Seats : Len(call.result.hands[p]) = 5
               /\ Len(call.result.remainingDeck) = 4
               /\ \A i \in 1..24 : Occurrences(call.deck[i], call.result) = 1
       /\ ShortDeck(call.deck)
            => /\ ~call.result.ok
               /\ call.result.hands = <<>>

\* dealCards dealt a deck that createDeck returned
C29_Witness ==
  /\ call.fn = "dealCards"
  /\ call.deck = createDeck(2)
  /\ call.n = 1
  /\ call.result.ok
  /\ Len(call.result.remainingDeck) = 4

(***************************************************************************)
(* Properties of the automated players.                                    *)
(***************************************************************************)
\* the play p was made by an automated seat as the last seat to act in its
\* trick, with the winning card of the trick so far played by its partner
LastUnderPartner(p) ==
  /\ p.pre.players[p.pre.currentPlayer].isCPU
  /\ Len(p.pre.trickCards) > 0
  /\ Len(p.pre.trickCards) = ExpectedTrickSize(p.pre) - 1
  /\ p.seats[determineWinner(p.pre.trickCards, p.pre.trump) + 1]
       = (p.pre.currentPlayer + 2) % 4

\* the cards of the acting hand that isValidPlay accepts
LegalCards(st) ==
  {card \in Range(st.players[st.currentPlayer].hand) :
     isValidPlay(card, st.players[st.currentPlayer].hand, st.trickCards, st.trump)}

\* C30: an automated player that is the last to act in a trick its partner is
\* winning plays a legal card of the lowest rank value in its hand
C30_LastSeatDiscardsUnderPartner ==
  \A k \in 1..Len(hist.plays) :
    LastUnderPartner(hist.plays[k])
      => \A card \in LegalCards(hist.plays[k].pre) :
           getRankValue(hist.plays[k].card, hist.plays[k].pre.trump)
             <= getRankValue(card, hist.plays[k].pre.trump)

\* the greatest heuristic score a suit attains for the hand
MaxBidScore(hand) ==
  CHOOSE m \in {BidScore(hand, suit) : suit \in Suits} :
    \A suit \in Suits : BidScore(hand, suit) <= m

\* the first suit of hearts, diamonds, spades, clubs that attains it
FirstBestSuit(hand) ==
  LET order == <<"hearts", "diamonds", "spades", "clubs">>
  IN  order[CHOOSE k \in 1..4 :
              /\ BidScore(hand, order[k]) = MaxBidScore(hand)
              /\ \A j \in 1..(k - 1) : BidScore(hand, order[j]) < MaxBidScore(hand)]

\* the bid the claim prescribes for the hand
PrescribedBid(hand) ==
  IF MaxBidScore(hand) >= 10
    THEN [type |-> "SET_TRUMP", suit |-> FirstBestSuit(hand),
          goingAlone |-> (MaxBidScore(hand) >= 18)]
    ELSE [type |-> "PASS"]

\* the bidder of the last call is the dealer after three passes
ForcedCall(c) == c.dealer = 1 /\ c.passCount >= 3

\* C31: an automated bidder that is not under a forced call names the first
\* suit, in the order hearts, diamonds, spades, clubs, that attains the greatest
\* heuristic score of its hand; it calls trump exactly when that score is at
\* least 10, goes alone exactly when it is at least 18, and passes otherwise
C31_BidFollowsScore ==
  (call.fn = "cpuBid" /\ ~ForcedCall(call)) => call.result = PrescribedBid(call.hand)

\* an automated seat that is not forced called, not alone, the first of two
\* suits that tie for the greatest score
C31_Witness ==
  /\ call.fn = "cpuBid"
  /\ ~ForcedCall(call)
  /\ call.result.type = "SET_TRUMP"
  /\ ~call.result.goingAlone
  /\ \E suit \in Suits \ {call.result.suit} :
       BidScore(call.hand, suit) = MaxBidScore(call.hand)

\* handleCpuPlay has nothing to do in st: the seat to act is human or sits
\* out, or the game has not started
NoCpuTurn(st) ==
  \/ ~st.players[st.currentPlayer].isCPU
  \/ st.players[st.currentPlayer].sittingOut
  \/ st.phase = "pre-game"

\* C32: a CPU_PLAY that arrives when the seat to act is human, or sits out,
\* or the phase is pre-game returns the state unchanged; and no card leaves a
\* human hand in a CPU_PLAY: every card played in one is played by an
\* automated seat
C32_StaleCpuPlayIgnored ==
  (last.action.type = "CPU_PLAY" /\ ~InvalidState(last.pre))
    => /\ NoCpuTurn(last.pre) => state = last.pre
       /\ \A k \in 1..Len(hist.plays) :
            hist.plays[k].pre.players[hist.plays[k].pre.currentPlayer].isCPU

\* a late CPU_PLAY arrived on the human seat's turn to play, cards in the
\* trick, and nothing changed
C32_Witness ==
  /\ last.by = "call"
  /\ last.action.type = "CPU_PLAY"
  /\ last.pre.phase = "playing"
  /\ ~last.pre.players[last.pre.currentPlayer].isCPU
  /\ last.pre.trickCards # <<>>
  /\ state = last.pre

\* the cards of the hand of the last call of getBestPlay that follow the lead
\* card's effective suit
Following(c) ==
  {card \in Range(c.hand) :
     getEffectiveSuit(card, c.trump) = getEffectiveSuit(c.trick[1], c.trump)}

\* the rank value of the card that is winning the trick of the call
WinningValue(c) == getRankValue(c.trick[determineWinner(c.trick, c.trump) + 1], c.trump)

\* those of the following cards that beat it
WinningFollowing(c) ==
  {card \in Following(c) : getRankValue(card, c.trump) > WinningValue(c)}

\* card is a card of lowest rank value in the set cards
LowestOf(card, cards, trump) ==
  /\ card \in cards
  /\ \A other \in cards : getRankValue(card, trump) <= getRankValue(other, trump)

\* C33: when following with at least one card of the lead card's effective
\* suit in the hand, getBestPlay (partner not winning) returns the card of
\* lowest rank value among the cards of that suit that beat the card winning
\* the trick, if there is one, and otherwise the lowest card of that suit
C33_FollowsLowestWinner ==
  (call.fn = "getBestPlay" /\ call.trick # <<>> /\ Following(call) # {})
    => IF WinningFollowing(call) # {}
         THEN LowestOf(call.result, WinningFollowing(call), call.trump)
         ELSE LowestOf(call.result, Following(call), call.trump)

\* the hand follows with two cards, one below and one above the card that is
\* winning, and getBestPlay returns the higher one
C33_Witness ==
  /\ call.fn = "getBestPlay"
  /\ call.trick # <<>>
  /\ Cardinality(Following(call)) = 2
  /\ Cardinality(WinningFollowing(call)) = 1
  /\ call.result \in WinningFollowing(call)

\* C34: in every reachable state with phase playing the seat to act does not
\* sit out, after the first lead chosen by SET_TRUMP, after every advance and
\* after every trick-winner assignment
C34_CurrentSeatActive ==
  state.phase = "playing" => ~state.players[state.currentPlayer].sittingOut

\* C35: under fairness every hand that reaches phase playing rolls over in
\* the end: the dealer rotates and a new deal happens, whatever the dealer
\* seat and the caller, going alone or not
C35_HandRollsOver ==
  \A h \in 1..MaxHands, dealer \in Seats :
    (state.phase = "playing" /\ hist.hands = h /\ state.dealer = dealer)
      ~> (hist.hands = h + 1 /\ state.dealer = (dealer + 1) % 4)

\* the tricks of the chain in which the human seat 0 played no card
TricksWithoutHuman(h) ==
  {i \in 1..Len(h.resolutions) : 0 \notin Range(h.resolutions[i].seats)}

\* C36: one application of gameReducer makes at most MaxChain calls of itself
\* and then returns, whatever the deals, also when the human seat sits out
C36_ChainIsFinite ==
  call.fn = "gameReducer" => call.c.h.calls <= MaxChain

\* an application has returned that played a whole hand without the human
\* seat and dealt the next one
C36_Witness ==
  /\ call.fn = "gameReducer"
  /\ call.todo = <<>>
  /\ call.c.h.hands > hist.hands
  /\ Cardinality(TricksWithoutHuman(call.c.h)) >= 5

\* C37: for every non-empty hand, trick and trump getBestPlay returns a card
\* of the hand that isValidPlay accepts
C37_BestPlayIsValid ==
  (call.fn = "getBestPlay" /\ Len(call.hand) > 0) =>
    /\ call.result \in Range(call.hand)
    /\ isValidPlay(call.result, call.hand, call.trick, call.trump)

\* getBestPlay was applied to a hand of which not every card may be played
C37_Witness ==
  /\ call.fn = "getBestPlay"
  /\ Len(ValidPlays(call.hand, call.trick, call.trump)) < Len(call.hand)
  /\ isValidPlay(call.result, call.hand, call.trick, call.trump)

\* the seat to act in configuration c
ActingSeat(c) == c.st.players[c.st.currentPlayer]

\* a CPU_PLAY is next in the chain, in the playing phase, for an automated
\* seat that does not sit out and holds a card
CpuIsToPlay ==
  /\ call.fn = "gameReducer"
  /\ call.todo # <<>>
  /\ Head(call.todo).type = "CPU_PLAY"
  /\ call.c.st.phase = "playing"
  /\ IsCpuTurn(call.c.st)
  /\ Len(ActingSeat(call.c).hand) > 0

\* C37, at the reducer: such a CPU_PLAY hands on one PLAY_CARD, which takes one
\* card from the hand of the seat and adds it to the trick
C37_CpuPlayPlaysOneCard ==
  CpuIsToPlay =>
    /\ Len(CpuDispatch(call.c)) = 1
    /\ CpuDispatch(call.c)[1].type = "PLAY_CARD"
    /\ handlePlayCard(call.c, CpuDispatch(call.c)[1]).st.trickCards
         = Append(call.c.st.trickCards, CpuDispatch(call.c)[1].card)
    /\ Len(handlePlayCard(call.c, CpuDispatch(call.c)[1]).st.players[call.c.st.currentPlayer].hand)
         = Len(ActingSeat(call.c).hand) - 1

\* the turn to bid is where the passes put it, and at most three have passed
BiddingInStep(st) ==
  st.phase = "bidding" =>
    /\ st.currentPlayer = (st.dealer + 1 + st.passCount) % 4
    /\ st.passCount <= 3

\* C38: in every state with phase bidding, between dispatches and between the
\* calls of a chain, the current player is (dealer + 1 + passCount) mod 4 and
\* passCount is at most 3; no PASS is applied once three seats have passed
C38_BiddingInStep ==
  /\ BiddingInStep(state)
  /\ call.fn = "gameReducer" =>
       /\ BiddingInStep(call.c.st)
       /\ (call.todo # <<>> /\ Head(call.todo).type = "PASS") => call.c.st.passCount < 3

\* three seats have passed and the dealer, an automated seat, calls trump
C38_Witness ==
  /\ call.fn = "gameReducer"
  /\ call.c.st.phase = "bidding"
  /\ call.c.st.passCount = 3
  /\ call.c.st.currentPlayer = call.c.st.dealer
  /\ call.c.st.players[call.c.st.dealer].isCPU
  /\ call.todo # <<>>
  /\ Head(call.todo).type = "SET_TRUMP"

\* the tricks credited since START_GAME
TricksCredited(st) == st.scores[1] + st.scores[2]

\* with h.hands hands dealt since START_GAME, every hand that rolled over has
\* added 5 to the scores and the hand in play at most 5, exactly 5 once the
\* hands of the seats that play are empty
FiveTricksAHand(st, h) ==
  /\ st.phase = "dealing" => TricksCredited(st) = 5 * h.hands
  /\ st.phase = "bidding" => TricksCredited(st) = 5 * (h.hands - 1)
  /\ st.phase = "playing" =>
       /\ TricksCredited(st) >= 5 * (h.hands - 1)
       /\ TricksCredited(st) <= 5 * h.hands
       /\ AllHandsEmpty(st) => TricksCredited(st) = 5 * h.hands

C40_ClearAgainChangesNothing ==
  (last.by = "call" /\ last.action.type = "CLEAR_TRICK"
     /\ last.pre.trickCards = <<>> /\ ~last.pre.shouldClearTrick) =>
    /\ state.phase = last.pre.phase
    /\ state.dealer = last.pre.dealer
    /\ state.currentPlayer = last.pre.currentPlayer
    /\ state.players = last.pre.players
    /\ state.scores = last.pre.scores

====
